---- MODULE Spec2Model ----
(***************************************************************************)
(* Constraint-system orchestration layer of binius: the append-only        *)
(* multilinear-oracle set, the channel ledger (exact and randomized        *)
(* balance checks) and the verification pipeline verify_with_pcs.          *)
(*                                                                         *)
(* The module holds several specifications over one set of variables; a    *)
(* specification leaves the variables of the other parts at their idle     *)
(* values.                                                                 *)
(*   SpecOracle  : MultilinearOracleSet under arbitrary add_* calls        *)
(*   SpecChannel : validate_witness applied to flushes and boundaries      *)
(*   SpecBalance : verify_channels_balance applied to claimed products     *)
(*   SpecVerify  : one run of verify_with_pcs, phase by phase              *)
(*   SpecConcurrent : two runs of verify_with_pcs on one shared system     *)
(*   SpecBuilder : ConstraintSetBuilder, constraints added, then built     *)
(*   SpecFlush   : one Channel under successive calls of flush             *)
(*   SpecSerialize : write then read of a Flush, Proof or ConstraintSystem *)
(*   SpecTest    : prove_verify_test, step by step                         *)
(***************************************************************************)
EXTENDS Integers, Sequences, FiniteSets, TLC

VARIABLES
    oracles,    \* MultilinearOracleSet.oracles : Vec<Arc<MultilinearPolyOracle>>
    last,       \* the last add_* call on `oracles`: its arguments and its outcome
    handed,     \* history: the handles returned by the successful add_* calls, in order
    vw_in,      \* validate_witness: its arguments (witness, flushes, boundaries, max_channel_id)
    vw_out,     \* validate_witness: its result, once it has run
    vb_in,      \* verify_channels_balance: its arguments
    vb_out,     \* verify_channels_balance: its result, once it has run
    caller,     \* verify: the ConstraintSystem as the caller built it
    heap,       \* verify: the ConstraintSystem values in memory, by location
    runs,       \* verify: the local state of every running verification
    builder,    \* ConstraintSetBuilder.constraints : Vec<UngroupedConstraint>
    built,      \* ConstraintSetBuilder: the result of build or build_one, once it has run
    chan,       \* Channel: its width and its net multiplicities
    chan_out,   \* Channel: the last call of flush and its result
    wire,       \* serialization: the value given to write and the bytes written
    decoded,    \* serialization: the result of read on the written bytes, once it has run
    test,       \* prove_verify_test: its arguments, its position and its result
    fn_in,      \* a pure function of verify.rs or arith_expr.rs: its name and arguments
    fn_out      \* that function: its result, once it has run

oracleVars == <<oracles, last, handed>>

channelVars == <<vw_in, vw_out>>

balanceVars == <<vb_in, vb_out>>

verifyVars == <<caller, heap, runs>>

builderVars == <<builder, built>>

flushVars == <<chan, chan_out>>

serialVars == <<wire, decoded, test>>

functionVars == <<fn_in, fn_out>>

vars ==
    <<oracles, last, handed, vw_in, vw_out, vb_in, vb_out, caller, heap, runs, builder, built,
      chan, chan_out, wire, decoded, test, fn_in, fn_out>>

(***************************************************************************)
(* Sequence helpers.                                                       *)
(***************************************************************************)
Range(s) == {s[i] : i \in 1..Len(s)}

SeqsUpTo(S, n) == UNION {[1..k -> S] : k \in 0..n}

(***************************************************************************)
(* The field.  The program runs over the 128-bit binary tower field; the   *)
(* model runs the same tower construction at height 1, GF(4) = GF(2)[X] /  *)
(* (X^2 + X + 1), element a0 + a1*X encoded as the integer a0 + 2*a1.      *)
(* Addition is XOR, as in every binary field.                              *)
(***************************************************************************)
F == 0..3

FZero == 0

FOne == 1

FAdd(a, b) == (((a % 2) + (b % 2)) % 2) + 2 * (((a \div 2) + (b \div 2)) % 2)

FMul(a, b) ==
    LET a0 == (a % 2)
        a1 == (a \div 2)
        b0 == (b % 2)
        b1 == (b \div 2)
    IN  ((a0 * b0 + a1 * b1) % 2) + 2 * ((a0 * b1 + a1 * b0 + a1 * b1) % 2)

\* Field::pow_vartime: square-and-multiply yields a^m; m is an unsigned exponent.
RECURSIVE pow_vartime(_, _)
pow_vartime(a, m) == IF m = 0 THEN FOne ELSE FMul(a, pow_vartime(a, m - 1))

\* F::TOWER_LEVEL of BinaryField128b, the field every example instantiates.
TOWER_LEVEL == 7

(***************************************************************************)
(* MultilinearPolyOracle.  One record shape for the eight variants; the    *)
(* fields a variant does not have hold the defaults of BlankOracle.  The   *)
(* program stores Arc clones of the inner oracles; since the set is        *)
(* append-only and oracles are immutable, a clone is determined by the     *)
(* inner oracle's id, which is what `inner` holds.  Oracle names (labels)  *)
(* are left out: no operation reads them.                                  *)
(***************************************************************************)
ShiftVariant == {"CircularLeft", "LogicalLeft", "LogicalRight"}

ProjectionVariant == {"FirstVars", "LastVars"}

BlankOracle ==
    [kind |-> "Committed", id |-> 0, n_vars |-> 0, tower_level |-> 0,
     inner |-> <<>>, log |-> 0, shift_offset |-> 0, block_size |-> 0,
     variant |-> "", values |-> <<>>, offset |-> FZero, coeffs |-> <<>>,
     poly |-> ""]

\* MultilinearOracleSet::new
new == <<>>

\* MultilinearOracleSet::size
size(set) == Len(set)

\* MultilinearOracleSet::is_valid_oracle_id
is_valid_oracle_id(set, id) == id < Len(set)

\* self.oracles[id]: handles count from 0, TLA+ sequences from 1.
oracle(set, id) == set[id + 1]

\* MultilinearPolyOracle::id
id_of(o) == o.id

\* MultilinearPolyOracle::n_vars, computed from the descriptor as the code does.
RECURSIVE n_vars(_, _)
n_vars(set, id) ==
    LET o == oracle(set, id)
    IN  CASE o.kind = "Transparent" -> o.n_vars
          [] o.kind = "Committed" -> o.n_vars
          [] o.kind = "Repeating" -> n_vars(set, o.inner[1]) + o.log
          [] o.kind = "Projected" -> n_vars(set, o.inner[1]) - Len(o.values)
          [] o.kind = "Shifted" -> n_vars(set, o.inner[1])
          [] o.kind = "Packed" -> n_vars(set, o.inner[1]) - o.log
          [] o.kind = "LinearCombination" -> o.n_vars
          [] o.kind = "ZeroPadded" -> o.n_vars

Max(S) == CHOOSE x \in S : \A y \in S : y <= x

\* MultilinearPolyOracle::binary_tower_level
RECURSIVE binary_tower_level(_, _)
binary_tower_level(set, id) ==
    LET o == oracle(set, id)
    IN  CASE o.kind = "Transparent" -> o.tower_level
          [] o.kind = "Committed" -> o.tower_level
          [] o.kind = "Repeating" -> binary_tower_level(set, o.inner[1])
          [] o.kind = "Projected" -> binary_tower_level(set, o.inner[1])
          [] o.kind = "Shifted" -> binary_tower_level(set, o.inner[1])
          [] o.kind = "Packed" -> o.log + binary_tower_level(set, o.inner[1])
          [] o.kind = "LinearCombination" ->
                IF o.inner = <<>> THEN 0
                ELSE Max({binary_tower_level(set, o.inner[i]) : i \in 1..Len(o.inner)})
          [] o.kind = "ZeroPadded" -> binary_tower_level(set, o.inner[1])

(***************************************************************************)
(* Outcomes of an add_* call: Ok(id) with the grown set, Err(kind) or a    *)
(* panic (an out-of-bounds index into the oracle vector) with the set as   *)
(* it was.                                                                 *)
(***************************************************************************)
Ok(set, id) == [tag |-> "Ok", err |-> "", id |-> id, set |-> set]

Err(set, kind) == [tag |-> "Err", err |-> kind, id |-> 0, set |-> set]

Panic(set) == [tag |-> "Panic", err |-> "index out of bounds", id |-> 0, set |-> set]

\* A plausible slip: the descriptor gets the right id but the call returns the
\* length after the push.
add_to_set_ReturnsLen(set, o) ==
    LET pushed == Append(set, [o EXCEPT !.id = Len(set)])
    IN  Ok(pushed, Len(pushed))

\* A plausible slip: the id is taken after the push instead of before it.
add_to_set_IdAfterPush(set, o) ==
    LET pushed == Append(set, [o EXCEPT !.id = Len(set) + 1])
    IN  Ok(pushed, Len(pushed))

\* MultilinearOracleSet::add_to_set
add_to_set(set, o) ==
    LET id == Len(set)
    IN  Ok(Append(set, [o EXCEPT !.id = id]), id)

\* MultilinearOracleSetAddition::add_committed_with_name (committed)
committed(set, nv, tower_level) ==
    add_to_set(set, [BlankOracle EXCEPT !.kind = "Committed", !.n_vars = nv,
                                        !.tower_level = tower_level])

\* MultilinearOracleSetAddition::transparent; poly is a MultivariatePoly given by
\* its n_vars, its binary_tower_level and a tag naming the evaluator.
transparent(set, poly) ==
    IF poly.tower_level > TOWER_LEVEL THEN Err(set, "TowerLevelTooHigh")
    ELSE add_to_set(set, [BlankOracle EXCEPT !.kind = "Transparent",
                                             !.n_vars = poly.n_vars,
                                             !.tower_level = poly.tower_level,
                                             !.poly = poly.poly])

\* MultilinearOracleSetAddition::repeating
repeating(set, inner_id, log_count) ==
    IF inner_id >= Len(set) THEN Err(set, "InvalidOracleId")
    ELSE add_to_set(set, [BlankOracle EXCEPT !.kind = "Repeating",
                                             !.inner = <<inner_id>>,
                                             !.log = log_count])

\* A plausible slip: the shift-offset range check is dropped.
shifted_NoOffsetCheck(set, inner_id, offset, block_bits, variant) ==
    IF inner_id >= Len(set) THEN Err(set, "InvalidOracleId")
    ELSE IF block_bits > n_vars(set, inner_id) THEN Err(set, "InvalidBlockSize")
    ELSE add_to_set(set, [BlankOracle EXCEPT !.kind = "Shifted",
                                             !.inner = <<inner_id>>,
                                             !.shift_offset = offset,
                                             !.block_size = block_bits,
                                             !.variant = variant])

\* MultilinearOracleSetAddition::shifted (Shifted::new repeats the two checks)
shifted(set, inner_id, offset, block_bits, variant) ==
    IF inner_id >= Len(set) THEN Err(set, "InvalidOracleId")
    ELSE IF block_bits > n_vars(set, inner_id) THEN Err(set, "InvalidBlockSize")
    ELSE IF offset = 0 \/ offset >= 2 ^ block_bits THEN Err(set, "InvalidShiftOffset")
    ELSE add_to_set(set, [BlankOracle EXCEPT !.kind = "Shifted",
                                             !.inner = <<inner_id>>,
                                             !.shift_offset = offset,
                                             !.block_size = block_bits,
                                             !.variant = variant])

\* A plausible slip: packing is accepted whatever the inner oracle's n_vars.
packed_NoDegreeCheck(set, inner_id, log_degree) ==
    IF inner_id >= Len(set) THEN Err(set, "InvalidOracleId")
    ELSE add_to_set(set, [BlankOracle EXCEPT !.kind = "Packed",
                                             !.inner = <<inner_id>>,
                                             !.log = log_degree])

\* MultilinearOracleSetAddition::packed
packed(set, inner_id, log_degree) ==
    IF inner_id >= Len(set) THEN Err(set, "InvalidOracleId")
    ELSE IF log_degree > n_vars(set, inner_id) THEN Err(set, "NotEnoughVarsForPacking")
    ELSE add_to_set(set, [BlankOracle EXCEPT !.kind = "Packed",
                                             !.inner = <<inner_id>>,
                                             !.log = log_degree])

\* A plausible slip: projecting every variable of the inner oracle is refused.
projected_RejectsAllVars(set, inner_id, values, variant) ==
    IF inner_id >= Len(set) THEN Panic(set)
    ELSE IF Len(values) >= n_vars(set, inner_id) THEN Err(set, "InvalidProjection")
    ELSE add_to_set(set, [BlankOracle EXCEPT !.kind = "Projected",
                                             !.inner = <<inner_id>>,
                                             !.values = values,
                                             !.variant = variant])

\* MultilinearOracleSetAddition::projected.  There is no InvalidOracleId guard:
\* self.mut_ref.n_vars(inner_id) indexes the vector and panics out of bounds.
projected(set, inner_id, values, variant) ==
    IF inner_id >= Len(set) THEN Panic(set)
    ELSE IF Len(values) > n_vars(set, inner_id) THEN Err(set, "InvalidProjection")
    ELSE add_to_set(set, [BlankOracle EXCEPT !.kind = "Projected",
                                             !.inner = <<inner_id>>,
                                             !.values = values,
                                             !.variant = variant])

\* The first inner term, in order, that the map in linear_combination_with_offset
\* rejects; 0 when it rejects none.
RECURSIVE first_bad_term(_, _, _, _)
first_bad_term(set, nv, inner, i) ==
    IF i > Len(inner) THEN 0
    ELSE IF inner[i][1] >= Len(set) THEN i
    ELSE IF n_vars(set, inner[i][1]) # nv THEN i
    ELSE first_bad_term(set, nv, inner, i + 1)

\* MultilinearOracleSetAddition::linear_combination_with_offset; inner is a
\* sequence of pairs <<inner_id, coefficient>>.
linear_combination_with_offset(set, nv, offset, inner) ==
    LET bad == first_bad_term(set, nv, inner, 1)
    IN  IF bad # 0
        THEN IF inner[bad][1] >= Len(set) THEN Err(set, "InvalidOracleId")
             ELSE Err(set, "IncorrectNumberOfVariables")
        ELSE add_to_set(set, [BlankOracle EXCEPT
                                 !.kind = "LinearCombination",
                                 !.n_vars = nv,
                                 !.offset = offset,
                                 !.inner = [i \in 1..Len(inner) |-> inner[i][1]],
                                 !.coeffs = [i \in 1..Len(inner) |-> inner[i][2]]])

\* MultilinearOracleSetAddition::linear_combination
linear_combination(set, nv, inner) ==
    linear_combination_with_offset(set, nv, FZero, inner)

\* MultilinearOracleSetAddition::zero_padded
zero_padded(set, inner_id, nv) ==
    IF inner_id >= Len(set) THEN Err(set, "InvalidOracleId")
    ELSE IF n_vars(set, inner_id) > nv THEN Err(set, "IncorrectNumberOfVariables")
    ELSE add_to_set(set, [BlankOracle EXCEPT !.kind = "ZeroPadded",
                                             !.inner = <<inner_id>>,
                                             !.n_vars = nv])

(***************************************************************************)
(* SpecOracle: a MultilinearOracleSet under arbitrary add_* calls.         *)
(***************************************************************************)
\* Bound on the oracle set's size in SpecOracle.
MaxOracles == 3

\* Arguments the calls are drawn from: each set holds arguments that meet the
\* call's precondition and arguments that violate it.
CommittedArgs == {<<1, 0>>, <<2, 3>>}

PolyArgs ==
    {[n_vars |-> 1, tower_level |-> 0, poly |-> "constant"],
     [n_vars |-> 2, tower_level |-> TOWER_LEVEL, poly |-> "constant"],
     [n_vars |-> 1, tower_level |-> TOWER_LEVEL + 1, poly |-> "constant"]}

\* <<offset, block_bits>>
ShiftArgs == {<<0, 1>>, <<1, 1>>, <<2, 1>>, <<3, 2>>, <<1, 3>>}

LogArgs == {1, 3}

ValuesArgs == {<<FOne>>, <<FOne, 2>>, <<FOne, FOne, FOne>>}

NVarsArgs == {1, 2}

\* Handles passed as inner ids: the oldest, the newest and the first invalid one.
InnerArgs == {0, Len(oracles) - 1, Len(oracles)} \cap Nat

TermsArgs ==
    {<<>>} \cup {<<<<a, FOne>>>> : a \in InnerArgs}
           \cup {<<<<0, FOne>>, <<b, 2>>>> : b \in InnerArgs}

NoCall == [op |-> "none", inner |-> <<>>, a |-> 0, b |-> 0, values |-> <<>>,
           tag |-> "Ok", err |-> "", id |-> 0]

\* The effect of one call on the specification's variables.
Record(op, inner, a, b, values, r) ==
    /\ oracles' = r.set
    /\ last' = [op |-> op, inner |-> inner, a |-> a, b |-> b, values |-> values,
                tag |-> r.tag, err |-> r.err, id |-> r.id]
    /\ handed' = IF r.tag = "Ok" THEN Append(handed, r.id) ELSE handed
    /\ UNCHANGED <<channelVars, balanceVars, verifyVars, builderVars, flushVars, serialVars, functionVars>>

\* The values the variables of a part hold under the other specifications.
NotRun == [tag |-> "none", err |-> "", id |-> 0]

IdleOracle == oracles = new /\ last = NoCall /\ handed = <<>>

IdleChannel == vw_in = NotRun /\ vw_out = NotRun

IdleBalance == vb_in = NotRun /\ vb_out = NotRun

IdleVerify == caller = NotRun /\ heap = <<>> /\ runs = <<>>

IdleBuilder == builder = <<>> /\ built = NotRun

IdleFlush == chan = NotRun /\ chan_out = NotRun

IdleSerial == wire = NotRun /\ decoded = NotRun /\ test = NotRun

IdleFunction == fn_in = NotRun /\ fn_out = NotRun

InitOracle ==
    /\ IdleOracle
    /\ IdleChannel
    /\ IdleBalance
    /\ IdleVerify
    /\ IdleBuilder
    /\ IdleFlush
    /\ IdleSerial
    /\ IdleFunction

CanAdd == Len(oracles) < MaxOracles

AddCommitted ==
    /\ CanAdd
    /\ \E c \in CommittedArgs :
          Record("committed", <<>>, c[1], c[2], <<>>, committed(oracles, c[1], c[2]))

AddTransparent ==
    /\ CanAdd
    /\ \E p \in PolyArgs :
          Record("transparent", <<>>, p.n_vars, p.tower_level, <<>>,
                 transparent(oracles, p))

AddRepeating ==
    /\ CanAdd
    /\ \E i \in InnerArgs, lc \in {1} :
          Record("repeating", <<i>>, lc, 0, <<>>, repeating(oracles, i, lc))

AddShifted ==
    /\ CanAdd
    /\ \E i \in InnerArgs, ob \in ShiftArgs, v \in {"LogicalLeft"} :
          Record("shifted", <<i>>, ob[1], ob[2], <<>>,
                 shifted(oracles, i, ob[1], ob[2], v))

AddPacked ==
    /\ CanAdd
    /\ \E i \in InnerArgs, ld \in LogArgs :
          Record("packed", <<i>>, ld, 0, <<>>, packed(oracles, i, ld))

AddProjected ==
    /\ CanAdd
    /\ \E i \in InnerArgs, vs \in ValuesArgs :
          Record("projected", <<i>>, 0, 0, vs, projected(oracles, i, vs, "FirstVars"))

AddLinearCombination ==
    /\ CanAdd
    /\ \E nv \in NVarsArgs, ts \in TermsArgs :
          Record("linear_combination", [k \in 1..Len(ts) |-> ts[k][1]], nv, 0, <<>>,
                 linear_combination(oracles, nv, ts))

AddZeroPadded ==
    /\ CanAdd
    /\ \E i \in InnerArgs, nv \in NVarsArgs :
          Record("zero_padded", <<i>>, nv, 0, <<>>, zero_padded(oracles, i, nv))

NextOracle ==
    \/ AddCommitted
    \/ AddTransparent
    \/ AddRepeating
    \/ AddShifted
    \/ AddPacked
    \/ AddProjected
    \/ AddLinearCombination
    \/ AddZeroPadded

SpecOracle == InitOracle /\ [][NextOracle]_vars

(***************************************************************************)
(* Claims about the oracle set (checked under SpecOracle).                 *)
(***************************************************************************)

\* C8: after any sequence of add_* calls the handles returned by the successful
\* calls are 0, 1, ..., size-1 in this order (each call returned the size before
\* it and grew the set by one; a failed call grew nothing), the last successful
\* call returned size-1, and is_valid_oracle_id holds exactly of the handles
\* handed out, i.e. of the ids below size.
C8_DenseHandles ==
    /\ handed = [i \in 1..size(oracles) |-> i - 1]
    /\ (last.op # "none" /\ last.tag = "Ok") => last.id = size(oracles) - 1
    /\ \A id \in 0..(MaxOracles + 1) :
          /\ is_valid_oracle_id(oracles, id) <=> id \in Range(handed)
          /\ is_valid_oracle_id(oracles, id) <=> id < size(oracles)

C8_Witness ==
    /\ size(oracles) = 3
    /\ handed = <<0, 1, 2>>
    /\ last.op = "shifted" /\ last.tag = "Ok" /\ last.id = 2

\* C9: in every reachable oracle set the descriptor at handle h carries id h, and
\* every inner oracle it references has a handle strictly below h.
C9_InnerBelow ==
    \A h \in 0..(size(oracles) - 1) :
        /\ id_of(oracle(oracles, h)) = h
        /\ \A i \in Range(oracle(oracles, h).inner) : i < h

C9_Witness ==
    /\ size(oracles) = 3
    /\ oracle(oracles, 2).kind = "LinearCombination"
    /\ oracle(oracles, 2).inner = <<0, 1>>
    /\ oracle(oracles, 1).kind = "Shifted"

\* The preconditions of section 4.1, for a call with arguments c on the set s
\* (inner handles valid), and the error kind that names each.
ValidInners(s, c) == \A i \in Range(c.inner) : i < size(s)

BlockOk(s, c) == c.b <= n_vars(s, c.inner[1])

OffsetOk(c) == 0 < c.a /\ c.a < 2 ^ c.b

ViolatedKinds(s, c) ==
    CASE c.op = "shifted" ->
            (IF BlockOk(s, c) THEN {} ELSE {"InvalidBlockSize"})
            \cup (IF OffsetOk(c) THEN {} ELSE {"InvalidShiftOffset"})
      [] c.op = "packed" ->
            IF c.a <= n_vars(s, c.inner[1]) THEN {} ELSE {"NotEnoughVarsForPacking"}
      [] c.op = "projected" ->
            IF Len(c.values) <= n_vars(s, c.inner[1]) THEN {} ELSE {"InvalidProjection"}
      [] c.op = "linear_combination" ->
            IF \A i \in Range(c.inner) : n_vars(s, i) = c.a THEN {}
            ELSE {"IncorrectNumberOfVariables"}
      [] c.op = "zero_padded" ->
            IF c.a >= n_vars(s, c.inner[1]) THEN {} ELSE {"IncorrectNumberOfVariables"}
      [] c.op = "transparent" ->
            IF c.b <= TOWER_LEVEL THEN {} ELSE {"TowerLevelTooHigh"}
      [] OTHER -> {}

\* C10: a call (with valid inner handles) that violates its precondition returns
\* an error whose kind names a violated precondition, and every call that
\* returns an error leaves the set's size and descriptors as they were.
C10_ViolationRejected ==
    [][ /\ (ValidInners(oracles, last') /\ ViolatedKinds(oracles, last') # {})
            => (last'.tag = "Err" /\ last'.err \in ViolatedKinds(oracles, last'))
        /\ last'.tag = "Err" => oracles' = oracles ]_vars

C10_Witness ==
    /\ size(oracles) = 2
    /\ last.op = "shifted" /\ last.tag = "Err" /\ last.err = "InvalidShiftOffset"
    /\ last.a = 2 /\ last.b = 1

InnerOps ==
    {"repeating", "shifted", "packed", "projected", "linear_combination", "zero_padded"}

\* C11: a call of repeating, shifted, packed, projected, linear_combination or
\* zero_padded with an inner handle that is not below the set's size returns the
\* InvalidOracleId error, does not abort, and leaves the set unchanged.
C11_InvalidInnerRejected ==
    [][ (last'.op \in InnerOps /\ ~ValidInners(oracles, last'))
            => /\ last'.tag = "Err"
               /\ last'.err = "InvalidOracleId"
               /\ oracles' = oracles ]_vars

\* What the code meets: the operations with a single inner handle other than
\* projected return InvalidOracleId, and linear_combination returns an error.
InvalidInnerRejectedElsewhere ==
    [][ (last'.op \in InnerOps /\ ~ValidInners(oracles, last'))
            => /\ oracles' = oracles
               /\ last'.op \in {"repeating", "shifted", "packed", "zero_padded"}
                     => (last'.tag = "Err" /\ last'.err = "InvalidOracleId")
               /\ last'.op = "linear_combination" => last'.tag = "Err" ]_vars

PreconditionOps == {"shifted", "packed", "projected", "linear_combination", "zero_padded"}

\* C20: given valid inner handles, each add operation succeeds exactly when its
\* precondition holds: shifted iff block_bits <= inner.n_vars and
\* 0 < offset < 2^block_bits; packed iff log_degree <= inner.n_vars; projected
\* iff values.len() <= inner.n_vars (projecting all variables is accepted and
\* gives a 0-variable oracle); linear_combination iff every inner oracle's
\* n_vars equals the declared n_vars; zero_padded iff the declared n_vars >=
\* inner.n_vars.
C20_SucceedsIffPrecondition ==
    [][ (last'.op \in PreconditionOps /\ ValidInners(oracles, last'))
            => /\ (last'.tag = "Ok") <=> (ViolatedKinds(oracles, last') = {})
               /\ last'.tag = "Ok" =>
                     /\ size(oracles') = size(oracles) + 1
                     /\ last'.op = "projected" =>
                           n_vars(oracles', last'.id)
                              = n_vars(oracles, last'.inner[1]) - Len(last'.values)
               /\ last'.tag # "Ok" => last'.tag = "Err" ]_vars

\* Both variables of a two-variable oracle have been projected: the call was
\* accepted and the new oracle has no variable.
C20_Witness ==
    /\ last.op = "projected"
    /\ last.tag = "Ok"
    /\ Len(last.values) = 2
    /\ n_vars(oracles, last.inner[1]) = 2
    /\ n_vars(oracles, last.id) = 0

\* The n_vars and the value width the claim gives the oracle a call creates,
\* from the call's arguments and the inner oracles as they were before the call.
DerivedShape(set, call) ==
    LET inner_n_vars == n_vars(set, call.inner[1])
        inner_level == binary_tower_level(set, call.inner[1])
        levels == {binary_tower_level(set, call.inner[k]) : k \in 1..Len(call.inner)}
    IN  CASE call.op = "repeating" -> <<inner_n_vars + call.a, inner_level>>
          [] call.op = "packed" -> <<inner_n_vars - call.a, inner_level + call.a>>
          [] call.op = "projected" -> <<inner_n_vars - Len(call.values), inner_level>>
          [] call.op = "shifted" -> <<inner_n_vars, inner_level>>
          [] call.op = "zero_padded" -> <<call.a, inner_level>>
          [] call.op = "linear_combination" ->
                <<call.a, IF levels = {} THEN 0 ELSE Max(levels)>>

MultBits == 4

MaxMult == 2 ^ MultBits - 1

\* i64::MIN and i64::MAX at the model's width.
I64Min == 0 - 2 ^ (MultBits - 1)

I64Max == 2 ^ (MultBits - 1) - 1

\* `multiplicity as i64`: a reinterpreting cast, values from 2^63 on go negative.
as_i64(m) == IF m > I64Max THEN m - 2 ^ MultBits ELSE m

\* Two's-complement wrap-around of a signed result.
wrap_i64(x) == ((x - I64Min) % (2 ^ MultBits)) + I64Min

InI64(x) == I64Min <= x /\ x <= I64Max

\* Channel::new (Default): no width yet, no tuples.  width is an Option: <<>> is
\* None and <<w>> is Some(w); multiplicities is the HashMap, a function on its keys.
new_channel == [width |-> <<>>, multiplicities |-> <<>>]

ChOk(ch) == [tag |-> "Ok", err |-> "", channel |-> ch]

ChErr(ch, kind) == [tag |-> "Err", err |-> kind, channel |-> ch]

ChPanic(ch) == [tag |-> "Panic", err |-> "arithmetic overflow", channel |-> ch]

\* A plausible slip: the width is recorded on first use but never compared.
flush_NoWidthCheck(ch, direction, multiplicity, values, overflow_checks) ==
    LET width == IF ch.width = <<>> THEN <<Len(values)>> ELSE ch.width
        sign == IF direction = "Pull" THEN -1 ELSE 1
        delta == as_i64(multiplicity) * sign
        old == IF values \in DOMAIN ch.multiplicities
               THEN ch.multiplicities[values] ELSE 0
        total == old + wrap_i64(delta)
        entries == [k \in (DOMAIN ch.multiplicities) \cup {values} |->
                      IF k = values THEN wrap_i64(total) ELSE ch.multiplicities[k]]
    IN  IF overflow_checks /\ (~InI64(delta) \/ ~InI64(total))
        THEN ChPanic(ch)
        ELSE ChOk([width |-> width, multiplicities |-> entries])

\* Channel::flush.  overflow_checks tells whether the build traps arithmetic
\* overflow (debug profile: panic) or wraps (release profile).
flush(ch, direction, multiplicity, values, overflow_checks) ==
    IF ch.width # <<>> /\ ch.width[1] # Len(values)
    THEN ChErr(ch, "ChannelFlushWidthMismatch")
    ELSE
      LET width == IF ch.width = <<>> THEN <<Len(values)>> ELSE ch.width
          sign == IF direction = "Pull" THEN -1 ELSE 1
          delta == as_i64(multiplicity) * sign
          old == IF values \in DOMAIN ch.multiplicities
                 THEN ch.multiplicities[values] ELSE 0
          total == old + wrap_i64(delta)
          entries == [k \in (DOMAIN ch.multiplicities) \cup {values} |->
                        IF k = values THEN wrap_i64(total) ELSE ch.multiplicities[k]]
      IN  IF overflow_checks /\ (~InI64(delta) \/ ~InI64(total))
          THEN ChPanic(ch)
          ELSE ChOk([width |-> width, multiplicities |-> entries])

\* Channel::is_balanced
is_balanced(ch) == \A k \in DOMAIN ch.multiplicities : ch.multiplicities[k] = 0

\* Results of validate_witness and of its loops.
VwOk == [tag |-> "Ok", err |-> "", id |-> 0]

VwErr(kind, id) == [tag |-> "Err", err |-> kind, id |-> id]

VwPanic(what) == [tag |-> "Panic", err |-> what, id |-> 0]

Running(channels) == [tag |-> "Running", err |-> "", id |-> 0, channels |-> channels]

\* channels[channel_id], channel ids counting from 0.
SetChannel(channels, channel_id, ch) == [channels EXCEPT ![channel_id + 1] = ch]

\* The loop over the boundaries, from the i-th on.
RECURSIVE flush_boundaries(_, _, _, _, _)
flush_boundaries(channels, boundaries, i, max_channel_id, overflow_checks) ==
    IF i > Len(boundaries) THEN Running(channels)
    ELSE
      LET b == boundaries[i]
      IN  IF b.channel_id > max_channel_id
          THEN VwErr("ChannelIdOutOfRange", b.channel_id)
          ELSE
            LET r == flush(channels[b.channel_id + 1], b.direction, b.multiplicity,
                           b.values, overflow_checks)
            IN  IF r.tag = "Ok"
                THEN flush_boundaries(SetChannel(channels, b.channel_id, r.channel),
                                      boundaries, i + 1, max_channel_id, overflow_checks)
                ELSE IF r.tag = "Err" THEN VwErr(r.err, b.channel_id)
                ELSE VwPanic(r.err)

\* poly.evaluate_on_hypercube(i), rows counting from 0.
evaluate_on_hypercube(poly, i) == poly.evals[i + 1]

\* A plausible slip: the loop stops one row early.
RECURSIVE flush_rows_SkipsLast(_, _, _, _, _)
flush_rows_SkipsLast(ch, polys, fl, i, overflow_checks) ==
    IF i + 1 >= fl.count THEN ChOk(ch)
    ELSE
      LET values == [k \in 1..Len(polys) |-> evaluate_on_hypercube(polys[k], i)]
          r == flush(ch, fl.direction, fl.multiplicity, values, overflow_checks)
      IN  IF r.tag = "Ok"
          THEN flush_rows_SkipsLast(r.channel, polys, fl, i + 1, overflow_checks)
          ELSE r

\* The loop `for i in 0..*count` of one flush, from row i on.
RECURSIVE flush_rows(_, _, _, _, _)
flush_rows(ch, polys, fl, i, overflow_checks) ==
    IF i >= fl.count THEN ChOk(ch)
    ELSE
      LET values == [k \in 1..Len(polys) |-> evaluate_on_hypercube(polys[k], i)]
          r == flush(ch, fl.direction, fl.multiplicity, values, overflow_checks)
      IN  IF r.tag = "Ok" THEN flush_rows(r.channel, polys, fl, i + 1, overflow_checks)
          ELSE r

\* The loop over the flushes, from the j-th on.
RECURSIVE flush_flushes(_, _, _, _, _, _)
flush_flushes(channels, witness, flushes, j, max_channel_id, overflow_checks) ==
    IF j > Len(flushes) THEN Running(channels)
    ELSE
      LET fl == flushes[j]
      IN  IF fl.channel_id > max_channel_id
          THEN VwErr("ChannelIdOutOfRange", fl.channel_id)
          ELSE IF \E k \in 1..Len(fl.oracles) : fl.oracles[k] \notin DOMAIN witness
          THEN VwPanic("unwrap on MissingWitness")
          ELSE
            LET polys == [k \in 1..Len(fl.oracles) |-> witness[fl.oracles[k]]]
                next == flush_flushes(channels, witness, flushes, j + 1,
                                      max_channel_id, overflow_checks)
            IN  IF polys = <<>> THEN next
                ELSE IF \E k \in 1..Len(polys) : polys[k].n_vars # polys[1].n_vars
                THEN VwErr("ChannelFlushNvarsMismatch", fl.channel_id)
                ELSE IF fl.count > 2 ^ polys[1].n_vars
                THEN VwErr("FlushCountExceedsOracleSize", fl.oracles[1])
                ELSE
                  LET r == flush_rows(channels[fl.channel_id + 1], polys, fl, 0,
                                      overflow_checks)
                  IN  IF r.tag = "Ok"
                      THEN flush_flushes(SetChannel(channels, fl.channel_id, r.channel),
                                         witness, flushes, j + 1, max_channel_id,
                                         overflow_checks)
                      ELSE IF r.tag = "Err" THEN VwErr(r.err, fl.channel_id)
                      ELSE VwPanic(r.err)

\* A plausible slip: the final loop looks at channel 0 only.
first_unbalanced_OnlyFirst(channels) ==
    IF ~is_balanced(channels[1]) THEN VwErr("ChannelUnbalanced", 0) ELSE VwOk

\* The final loop: the first channel, in id order, that is not balanced.
first_unbalanced(channels) ==
    IF \A c \in 1..Len(channels) : is_balanced(channels[c]) THEN VwOk
    ELSE VwErr("ChannelUnbalanced",
               (CHOOSE c \in 1..Len(channels) :
                   /\ ~is_balanced(channels[c])
                   /\ \A d \in 1..(c - 1) : is_balanced(channels[d])) - 1)

\* validate_witness
validate_witness(witness, flushes, boundaries, max_channel_id, overflow_checks) ==
    LET channels == [c \in 1..(max_channel_id + 1) |-> new_channel]
        afterB == flush_boundaries(channels, boundaries, 1, max_channel_id,
                                   overflow_checks)
    IN  IF afterB.tag # "Running" THEN afterB
        ELSE
          LET afterF == flush_flushes(afterB.channels, witness, flushes, 1,
                                      max_channel_id, overflow_checks)
          IN  IF afterF.tag # "Running" THEN afterF
              ELSE first_unbalanced(afterF.channels)

(***************************************************************************)
(* SpecChannel: validate_witness applied once to arguments drawn from a    *)
(* bounded universe of boundaries and flushes over a two-column witness.   *)
(***************************************************************************)
\* Bound on the number of boundaries plus flushes of one call.
MaxItems == 3

\* max_channel_id of the calls.
MaxChannelId == 1

Flush(o, c, d, n, m) ==
    [oracles |-> o, channel_id |-> c, direction |-> d, count |-> n, multiplicity |-> m]

Boundary(v, c, d, m) ==
    [values |-> v, channel_id |-> c, direction |-> d, multiplicity |-> m]

FlushDirection == {"Push", "Pull"}

\* MultilinearExtensionIndex: oracle id -> multilinear (n_vars and its values on
\* the hypercube).  Columns 0 and 1 hold the same rows in opposite order.
WitnessArg ==
    [id \in {0, 1} |-> [n_vars |-> 1, evals |-> IF id = 0 THEN <<1, 2>> ELSE <<2, 1>>]]

\* Boundaries: multiplicity 1 on both channels, and u64::MAX and i64::MAX on channel 0.
BoundaryArgs ==
    {Boundary(vc[1], vc[2], d, 1) :
        vc \in {<<<<1>>, 0>>, <<<<2>>, 0>>, <<<<1>>, 1>>}, d \in FlushDirection}
    \cup {Boundary(<<1>>, 0, d, m) : d \in FlushDirection, m \in {MaxMult, I64Max}}

\* Flushes: one column with 1 or 2 rows, one column with multiplicity 2, one
\* column with no row and with one row more than the column has, and both
\* columns pushed in one order and pulled in the other (the same two tuples at
\* swapped rows).
FlushArgs ==
    {Flush(oc[1], oc[2], d, n, 1) :
        oc \in {<<<<0>>, 0>>, <<<<1>>, 0>>, <<<<0>>, 1>>}, d \in FlushDirection,
        n \in {1, 2}}
    \cup {Flush(<<0>>, 0, d, 1, 2) : d \in FlushDirection}
    \cup {Flush(<<0>>, 0, "Push", 0, 1), Flush(<<0>>, 0, "Pull", 3, 1)}
    \cup {Flush(<<0, 1>>, 1, "Push", 2, 1), Flush(<<1, 0>>, 1, "Pull", 2, 1)}

VwArgs(bs, fs) ==
    [tag |-> "args", witness |-> WitnessArg, flushes |-> fs, boundaries |-> bs,
     max_channel_id |-> MaxChannelId]

InitChannel ==
    /\ IdleOracle
    /\ IdleBalance
    /\ IdleVerify
    /\ IdleBuilder
    /\ IdleFlush
    /\ IdleSerial
    /\ IdleFunction
    /\ \E nb \in 0..MaxItems :
         \E nf \in 0..(MaxItems - nb) :
           \E bs \in [1..nb -> BoundaryArgs], fs \in [1..nf -> FlushArgs] :
              vw_in = VwArgs(bs, fs)
    /\ vw_out = NotRun

\* One call of validate_witness; the build profile decides what an arithmetic
\* overflow does.
ValidateWitness ==
    /\ vw_out = NotRun
    /\ \E overflow_checks \in BOOLEAN :
          vw_out' = validate_witness(vw_in.witness, vw_in.flushes, vw_in.boundaries,
                                     vw_in.max_channel_id, overflow_checks)
    /\ UNCHANGED <<vw_in, oracleVars, balanceVars, verifyVars, builderVars, flushVars, serialVars, functionVars>>

NextChannel == ValidateWitness

SpecChannel == InitChannel /\ [][NextChannel]_vars

(***************************************************************************)
(* The exact multiset statement of channel balance, over the integers.     *)
(***************************************************************************)
RECURSIVE SumSeq(_)
SumSeq(s) == IF s = <<>> THEN 0 ELSE Head(s) + SumSeq(Tail(s))

\* The rows 0..count-1 a flush engages, as tuples.
FlushRows(a, fl) ==
    [i \in 1..fl.count |-> [k \in 1..Len(fl.oracles) |-> a.witness[fl.oracles[k]].evals[i]]]

\* Total multiplicity with which tuple t goes into channel c in direction d.
Total(a, c, t, d) ==
    SumSeq([i \in 1..Len(a.boundaries) |->
              LET b == a.boundaries[i]
              IN  IF b.channel_id = c /\ b.direction = d /\ b.values = t
                  THEN b.multiplicity ELSE 0])
    + SumSeq([j \in 1..Len(a.flushes) |->
              LET fl == a.flushes[j]
              IN  IF fl.channel_id = c /\ fl.direction = d /\ fl.oracles # <<>>
                  THEN fl.multiplicity
                       * Cardinality({i \in 1..fl.count : FlushRows(a, fl)[i] = t})
                  ELSE 0])

\* The tuples that occur in the arguments.
Tuples(a) ==
    {a.boundaries[i].values : i \in 1..Len(a.boundaries)}
    \cup UNION {Range(FlushRows(a, a.flushes[j])) :
                  j \in {k \in 1..Len(a.flushes) : a.flushes[k].oracles # <<>>}}

ChannelBalanced(a, c) ==
    \A t \in Tuples(a) : Total(a, c, t, "Push") = Total(a, c, t, "Pull")

\* The structural checks of validate_witness pass.
Structural(a) ==
    /\ \A i \in 1..Len(a.boundaries) : a.boundaries[i].channel_id <= a.max_channel_id
    /\ \A j \in 1..Len(a.flushes) :
          LET fl == a.flushes[j]
          IN  /\ fl.channel_id <= a.max_channel_id
              /\ \A k \in 1..Len(fl.oracles) :
                    /\ fl.oracles[k] \in DOMAIN a.witness
                    /\ a.witness[fl.oracles[k]].n_vars = a.witness[fl.oracles[1]].n_vars
              /\ fl.oracles # <<>> => fl.count <= 2 ^ a.witness[fl.oracles[1]].n_vars
    /\ \A c \in 0..a.max_channel_id :
          \A i, j \in 1..Len(a.boundaries) + Len(a.flushes) :
             LET item(n) == IF n <= Len(a.boundaries) THEN a.boundaries[n]
                            ELSE a.flushes[n - Len(a.boundaries)]
                 engaged(n) == n <= Len(a.boundaries)
                               \/ (item(n).oracles # <<>> /\ item(n).count > 0)
                 width(n) == IF n <= Len(a.boundaries) THEN Len(item(n).values)
                             ELSE Len(item(n).oracles)
             IN  (item(i).channel_id = c /\ item(j).channel_id = c
                  /\ engaged(i) /\ engaged(j)) => width(i) = width(j)

\* What the claim says validate_witness returns on arguments a.
ExactOutcome(a, out) ==
    IF \A c \in 0..a.max_channel_id : ChannelBalanced(a, c)
    THEN out = VwOk
    ELSE /\ out.tag = "Err" /\ out.err = "ChannelUnbalanced"
         /\ out.id \in 0..a.max_channel_id
         /\ ~ChannelBalanced(a, out.id)

\* C1: for arguments that pass the structural checks validate_witness returns Ok
\* exactly when, in every channel, every tuple is pushed with the same total
\* multiplicity as it is pulled, and otherwise ChannelUnbalanced with the id of an
\* unbalanced channel.
C1_ExactBalance ==
    (vw_out # NotRun /\ Structural(vw_in)) => ExactOutcome(vw_in, vw_out)

\* The same statement for calls whose multiplicities are below 2^63 and whose
\* per-tuple totals stay within an i64, where neither the cast of the
\* multiplicity nor the running sum can wrap.
WithinI64(a) ==
    /\ \A i \in 1..Len(a.boundaries) : a.boundaries[i].multiplicity <= I64Max
    /\ \A j \in 1..Len(a.flushes) : a.flushes[j].multiplicity <= I64Max
    /\ \A c \in 0..a.max_channel_id, t \in Tuples(a), d \in FlushDirection :
          Total(a, c, t, d) <= I64Max

ExactBalanceWithinI64 ==
    (vw_out # NotRun /\ Structural(vw_in) /\ WithinI64(vw_in))
        => ExactOutcome(vw_in, vw_out)

(***************************************************************************)
(* verify_channels_balance: the randomized balance check of the verifier.  *)
(***************************************************************************)
\* A plausible slip: the power of the mixing challenge is not advanced.
RECURSIVE mix_fold_NoPowers(_, _, _, _)
mix_fold_NoPowers(values, i, mixing_challenge, start) ==
    IF i = 0 THEN <<start, FOne>>
    ELSE <<FAdd(mix_fold_NoPowers(values, i - 1, mixing_challenge, start)[1], values[i]), FOne>>

\* The inner fold over a boundary's values: the pair (sum, mixing) after the
\* first i values, starting from (permutation_challenges[channel_id], ONE).
RECURSIVE mix_fold(_, _, _, _)
mix_fold(values, i, mixing_challenge, start) ==
    IF i = 0 THEN <<start, FOne>>
    ELSE LET acc == mix_fold(values, i - 1, mixing_challenge, start)
         IN  <<FAdd(acc[1], FMul(acc[2], values[i])), FMul(acc[2], mixing_challenge)>>

\* The fold over the boundaries for one channel: <<pull_product, push_product>>
\* after the first i boundaries.
RECURSIVE boundary_products(_, _, _, _, _)
boundary_products(boundaries, i, channel_id, mixing_challenge, permutation_challenges) ==
    IF i = 0 THEN <<FOne, FOne>>
    ELSE
      LET acc == boundary_products(boundaries, i - 1, channel_id, mixing_challenge,
                                   permutation_challenges)
          b == boundaries[i]
      IN  IF b.channel_id = channel_id
          THEN LET mixed_values ==
                       mix_fold(b.values, Len(b.values), mixing_challenge,
                                permutation_challenges[channel_id + 1])[1]
                   mixed_values_with_multiplicity ==
                       pow_vartime(mixed_values, b.multiplicity)
               IN  IF b.direction = "Pull"
                   THEN <<FMul(acc[1], mixed_values_with_multiplicity), acc[2]>>
                   ELSE <<acc[1], FMul(acc[2], mixed_values_with_multiplicity)>>
          ELSE acc

\* peeking_take_while: the first position from `from` on whose flush is not of
\* channel_id (Len + 1 when there is none).
RECURSIVE run_end(_, _, _)
run_end(flushes, from, channel_id) ==
    IF from > Len(flushes) \/ flushes[from].channel_id # channel_id THEN from
    ELSE run_end(flushes, from + 1, channel_id)

\* The fold over the flushes from..(to - 1) of one run, starting from acc.
RECURSIVE run_products(_, _, _, _, _)
run_products(flushes, flush_products, from, to, acc) ==
    IF from >= to THEN acc
    ELSE run_products(flushes, flush_products, from + 1, to,
                      IF flushes[from].direction = "Pull"
                      THEN <<FMul(acc[1], flush_products[from]), acc[2]>>
                      ELSE <<acc[1], FMul(acc[2], flush_products[from])>>)

\* The `while let Some(..) = flush_iter.peek()` loop, from position `from` on.
RECURSIVE balance_loop(_, _, _, _, _, _)
balance_loop(flushes, flush_products, boundaries, mixing_challenge, permutation_challenges, from) ==
    IF from > Len(flushes) THEN VwOk
    ELSE
      LET channel_id == flushes[from].channel_id
          to == run_end(flushes, from, channel_id)
      IN  IF channel_id >= Len(permutation_challenges)
             /\ \E i \in 1..Len(boundaries) : boundaries[i].channel_id = channel_id
          THEN VwPanic("index out of bounds")
          ELSE
            LET products ==
                    run_products(flushes, flush_products, from, to,
                                 boundary_products(boundaries, Len(boundaries),
                                                   channel_id, mixing_challenge,
                                                   permutation_challenges))
            IN  IF products[1] # products[2]
                THEN VwErr("ChannelUnbalanced", channel_id)
                ELSE balance_loop(flushes, flush_products, boundaries,
                                  mixing_challenge, permutation_challenges, to)

\* verify_channels_balance
verify_channels_balance(flushes, flush_products, boundaries, mixing_challenge, permutation_challenges) ==
    IF Len(flush_products) # Len(flushes)
    THEN VwErr("IncorrectNumberOfFlushProducts", 0)
    ELSE balance_loop(flushes, flush_products, boundaries, mixing_challenge,
                      permutation_challenges, 1)

(***************************************************************************)
(* SpecBalance: verify_channels_balance applied once to flushes sorted by  *)
(* channel id (as verify_with_pcs passes them), claimed products,          *)
(* boundaries and challenges drawn from a bounded universe.                *)
(***************************************************************************)
\* Bound on the number of flushes plus boundaries of one call.
MaxBalItems == 3

\* Channel ids of SpecBalance are 0..BalMaxChannelId.
BalMaxChannelId == 1

BalFlushArgs ==
    {Flush(<<0>>, c, d, 1, 1) : c \in 0..BalMaxChannelId, d \in FlushDirection}

BalBoundaryArgs ==
    {Boundary(<<1>>, c, d, m) : c \in 0..BalMaxChannelId, d \in FlushDirection,
                                 m \in {1, 2}}
    \cup {Boundary(<<2, 3>>, 0, d, 1) : d \in FlushDirection}

\* <<mixing_challenge, permutation challenge of every channel>>
ChallengeArgs ==
    {<<2, [c \in 1..(BalMaxChannelId + 1) |-> c - 1]>>,
     <<3, [c \in 1..(BalMaxChannelId + 1) |-> 3]>>}

SortedByChannel(fs) ==
    \A i \in 1..(Len(fs) - 1) : fs[i].channel_id <= fs[i + 1].channel_id

InitBalance ==
    /\ IdleOracle
    /\ IdleChannel
    /\ IdleVerify
    /\ IdleBuilder
    /\ IdleFlush
    /\ IdleSerial
    /\ IdleFunction
    /\ \E nf \in 0..MaxBalItems :
         \E nb \in 0..(MaxBalItems - nf) :
           \E fs \in {x \in [1..nf -> BalFlushArgs] : SortedByChannel(x)},
              bs \in [1..nb -> BalBoundaryArgs], ch \in ChallengeArgs :
             \E ps \in [1..nf -> F] \cup {[i \in 1..(nf - 1) |-> FOne]} :
                vb_in = [tag |-> "args", flushes |-> fs, flush_products |-> ps,
                         boundaries |-> bs, mixing_challenge |-> ch[1],
                         permutation_challenges |-> ch[2]]
    /\ vb_out = NotRun

VerifyChannelsBalance ==
    /\ vb_out = NotRun
    /\ vb_out' = verify_channels_balance(vb_in.flushes, vb_in.flush_products,
                                         vb_in.boundaries, vb_in.mixing_challenge,
                                         vb_in.permutation_challenges)
    /\ UNCHANGED <<vb_in, oracleVars, channelVars, verifyVars, builderVars, flushVars, serialVars, functionVars>>

NextBalance == VerifyChannelsBalance

SpecBalance == InitBalance /\ [][NextBalance]_vars

(***************************************************************************)
(* The per-channel product statement of section 4.3.                       *)
(***************************************************************************)
RECURSIVE ProdSeq(_)
ProdSeq(s) == IF s = <<>> THEN FOne ELSE FMul(Head(s), ProdSeq(Tail(s)))

RECURSIVE FSumSeq(_)
FSumSeq(s) == IF s = <<>> THEN FZero ELSE FAdd(Head(s), FSumSeq(Tail(s)))

\* mixed = permutation_challenge[channel] + sum of v_i * mixing_challenge^i
Mixed(a, b) ==
    FAdd(a.permutation_challenges[b.channel_id + 1],
         FSumSeq([i \in 1..Len(b.values) |->
                    FMul(b.values[i], pow_vartime(a.mixing_challenge, i - 1))]))

\* The product of channel c's side d: its boundaries' mixed values raised to
\* their multiplicities, times its flushes' claimed products.
SideProduct(a, c, d) ==
    FMul(ProdSeq([i \in 1..Len(a.boundaries) |->
                    LET b == a.boundaries[i]
                    IN  IF b.channel_id = c /\ b.direction = d
                        THEN pow_vartime(Mixed(a, b), b.multiplicity) ELSE FOne]),
         ProdSeq([j \in 1..Len(a.flushes) |->
                    IF a.flushes[j].channel_id = c /\ a.flushes[j].direction = d
                    THEN a.flush_products[j] ELSE FOne]))

BalMismatch(a, c) == SideProduct(a, c, "Pull") # SideProduct(a, c, "Push")

\* C2: whenever some channel id in 0..=max_channel_id has a pull-side product
\* different from its push-side product, also a channel that has boundaries but
\* no flushes, verify_channels_balance returns ChannelUnbalanced.  (Stated for
\* calls that bring one claimed product per flush.)
C2_MismatchRejected ==
    (/\ vb_out # NotRun
     /\ Len(vb_in.flush_products) = Len(vb_in.flushes)
     /\ \E c \in 0..(Len(vb_in.permutation_challenges) - 1) : BalMismatch(vb_in, c))
        => (vb_out.tag = "Err" /\ vb_out.err = "ChannelUnbalanced")

\* The part of the statement that the code meets: a mismatch in a channel that
\* has at least one flush is rejected, and naming a channel that mismatches.
MismatchWithFlushRejected ==
    (/\ vb_out # NotRun
     /\ Len(vb_in.flush_products) = Len(vb_in.flushes)
     /\ \E j \in 1..Len(vb_in.flushes) : BalMismatch(vb_in, vb_in.flushes[j].channel_id))
        => (/\ vb_out.tag = "Err" /\ vb_out.err = "ChannelUnbalanced"
            /\ BalMismatch(vb_in, vb_out.id))

\* The factors the boundaries give to side d of channel c.
BoundarySide(a, c, d) ==
    ProdSeq([i \in 1..Len(a.boundaries) |->
               IF a.boundaries[i].channel_id = c /\ a.boundaries[i].direction = d
               THEN pow_vartime(Mixed(a, a.boundaries[i]), a.boundaries[i].multiplicity)
               ELSE FOne])

\* C32: a boundary with values v_0..v_{k-1}, channel c and multiplicity m
\* contributes the factor (permutation_challenges[c] + sum of v_i *
\* mixing_challenge^i)^m to the pull product of channel c when it is a Pull and
\* to the push product of channel c when it is a Push, and to no product of
\* another channel.
C32_BoundaryFactor ==
    vb_out # NotRun =>
        \A c \in 0..(Len(vb_in.permutation_challenges) - 1) :
            boundary_products(vb_in.boundaries, Len(vb_in.boundaries), c,
                              vb_in.mixing_challenge, vb_in.permutation_challenges)
            = <<BoundarySide(vb_in, c, "Pull"), BoundarySide(vb_in, c, "Push")>>

\* A boundary of two values on channel 0 and a boundary of multiplicity 2 on
\* channel 1, with a flush on each channel, checked with a mixing challenge
\* other than 0 and 1.
C32_Witness ==
    /\ vb_out # NotRun
    /\ vb_in.mixing_challenge = 2
    /\ Len(vb_in.flush_products) = Len(vb_in.flushes)
    /\ \E i, j \in 1..Len(vb_in.boundaries) :
          /\ vb_in.boundaries[i] = Boundary(<<2, 3>>, 0, "Pull", 1)
          /\ vb_in.boundaries[j] = Boundary(<<1>>, 1, "Push", 2)
    /\ \E j \in 1..Len(vb_in.flushes) : vb_in.flushes[j].channel_id = 0

(***************************************************************************)
(* verify_with_pcs: the pieces the phases are made of.                     *)
(***************************************************************************)
\* The place of element i after a stable sort by keys.
rank(keys, i) ==
    1 + Cardinality({j \in 1..Len(keys) :
                       keys[j] < keys[i] \/ (keys[j] = keys[i] /\ j < i)})

\* slice::sort_by_key (stable); keys[i] is the key of s[i].
sort_by_key(s, keys) ==
    [k \in 1..Len(s) |-> s[CHOOSE i \in 1..Len(s) : rank(keys, i) = k]]

\* TranscriptReader::new / AdviceReader::new: a stream of tokens, the number
\* of tokens read and the number of challenges sampled so far.
new_reader(data) == [data |-> data, pos |-> 0, sampled |-> 0]

remaining(r) == Len(r.data) - r.pos

\* read_scalar_slice / read_packed_slice: the next n tokens, or an error when
\* fewer are left.
read_slice(r, n) ==
    IF remaining(r) < n THEN [tag |-> "Err", reader |-> r, values |-> <<>>]
    ELSE [tag |-> "Ok", reader |-> [r EXCEPT !.pos = @ + n],
          values |-> SubSeq(r.data, r.pos + 1, r.pos + n)]

\* The challenger: a challenge is a function of the tokens observed so far and
\* of the number of challenges already drawn (Fiat-Shamir).
challenge(r, k) == (SumSeq(SubSeq(r.data, 1, r.pos)) + r.sampled + k + 1) % 4

\* transcript.sample_vec(n); transcript.sample() is its case n = 1.
sample_vec(r, n) ==
    [reader |-> [r EXCEPT !.sampled = @ + n],
     values |-> [k \in 1..n |-> challenge(r, k - 1)]]

\* finalize: Ok exactly when no token is left unread.
finalize(r) == remaining(r) = 0

\* A sub-protocol verifier (gkr_gpa::batch_verify, sumcheck::batch_verify, the
\* zerocheck verifiers): reads its proof material from the transcript and
\* accepts or rejects it.
batch_verify(r) ==
    LET m == read_slice(r, 1)
    IN  IF m.tag = "Err" THEN [tag |-> "Err", err |-> "TranscriptError", reader |-> r]
        ELSE IF m.values[1] = 0
        THEN [tag |-> "Err", err |-> "VerificationError", reader |-> m.reader]
        ELSE [tag |-> "Ok", err |-> "", reader |-> m.reader]

\* oracles.n_batches(): the committed oracles are batched by their number of
\* variables and tower level.
n_batches(set) ==
    Cardinality({<<set[i].n_vars, set[i].tower_level>> :
                    i \in {j \in 1..Len(set) : set[j].kind = "Committed"}})

\* greedy_evalcheck::verify: reads its verdict material from the transcript and
\* the description of the committed-batch claims that remain (their number,
\* then the batch id of each) from the advice.
greedy_evalcheck_verify(set, transcript, advice) ==
    LET v == batch_verify(transcript)
        k == read_slice(advice, 1)
        ids == read_slice(k.reader, k.values[1])
        bad(res) == [tag |-> "Err", err |-> res, transcript |-> transcript,
                     advice |-> advice, pcs_claims |-> <<>>]
    IN  IF v.tag = "Err" THEN bad(v.err)
        ELSE IF k.tag = "Err" THEN bad("TranscriptError")
        ELSE IF ids.tag = "Err" THEN bad("TranscriptError")
        ELSE IF \E i \in 1..Len(ids.values) : ids.values[i] >= n_batches(set)
        THEN bad("VerificationError")
        ELSE [tag |-> "Ok", err |-> "", transcript |-> v.reader,
              advice |-> ids.reader, pcs_claims |-> ids.values]

\* pcs.verify_evaluation: reads from the advice and from the transcript.
verify_evaluation(advice, transcript) ==
    LET a == read_slice(advice, 1)
        v == batch_verify(transcript)
    IN  IF a.tag = "Err" \/ v.tag = "Err"
        THEN [tag |-> "Err", advice |-> advice, transcript |-> transcript]
        ELSE [tag |-> "Ok", advice |-> a.reader, transcript |-> v.reader]

\* A plausible slip: every flush gets a fresh vector of powers that goes on
\* where the vector of the flushes before it ended.
mixing_powers_Restarted(mixing_powers, n, mixing_challenge) ==
    [i \in 1..n |-> pow_vartime(mixing_challenge, Len(mixing_powers) + i - 2)]

\* make_flush_oracles, the while loop: mixing_powers, shared by all flushes and
\* never shrinking, grows by last_power * mixing_challenge up to n entries.
RECURSIVE mixing_powers_extended(_, _, _)
mixing_powers_extended(mixing_powers, n, mixing_challenge) ==
    IF Len(mixing_powers) >= n THEN mixing_powers
    ELSE mixing_powers_extended(
            Append(mixing_powers, FMul(mixing_powers[Len(mixing_powers)], mixing_challenge)),
            n, mixing_challenge)

\* Iterator::zip: pairs up to the end of the shorter sequence.
zip(a, b) == [i \in 1..(IF Len(a) <= Len(b) THEN Len(a) ELSE Len(b)) |-> <<a[i], b[i]>>]

\* The loop of make_flush_oracles from channel c and flush position pos on; ids
\* are the handles made so far.  The flat_map over the enumerated permutation
\* challenges takes, per channel id, the flushes at the head of the iterator
\* that carry this channel id: a flush whose channel id is above every
\* enumerated channel is never taken.
RECURSIVE make_flush_oracles_from(_, _, _, _, _, _, _, _)
make_flush_oracles_from(set, flushes, mixing_challenge, permutation_challenges, c, pos, ids, mixing_powers) ==
    IF c >= Len(permutation_challenges) THEN [tag |-> "Ok", err |-> "", set |-> set, ids |-> ids]
    ELSE IF pos > Len(flushes) \/ flushes[pos].channel_id # c
    THEN make_flush_oracles_from(set, flushes, mixing_challenge, permutation_challenges,
                                 c + 1, pos, ids, mixing_powers)
    ELSE
      LET fl == flushes[pos]
          fail(tag, err) == [tag |-> tag, err |-> err, set |-> set, ids |-> ids]
      IN  IF fl.oracles = <<>> THEN fail("Err", "EmptyFlushOracles")
          ELSE IF fl.oracles[1] >= Len(set) THEN fail("Panic", "index out of bounds")
          ELSE
            LET nv == n_vars(set, fl.oracles[1])
                bad == {i \in 2..Len(fl.oracles) :
                          \/ fl.oracles[i] >= Len(set)
                          \/ n_vars(set, fl.oracles[i]) # nv}
                first == CHOOSE i \in bad : \A j \in bad : i <= j
                powers == mixing_powers_extended(mixing_powers, Len(fl.oracles),
                                                 mixing_challenge)
                r == linear_combination_with_offset(
                        set, nv, permutation_challenges[c + 1], zip(fl.oracles, powers))
            IN  IF bad # {}
                THEN IF fl.oracles[first] >= Len(set)
                     THEN fail("Panic", "index out of bounds")
                     ELSE fail("Err", "ChannelFlushNvarsMismatch")
                ELSE IF r.tag # "Ok" THEN fail(r.tag, r.err)
                ELSE make_flush_oracles_from(r.set, flushes, mixing_challenge,
                                             permutation_challenges, c, pos + 1,
                                             Append(ids, r.id), powers)

\* make_flush_oracles
make_flush_oracles(set, flushes, mixing_challenge, permutation_challenges) ==
    make_flush_oracles_from(set, flushes, mixing_challenge, permutation_challenges, 0, 1, <<>>,
                            <<FOne>>)

\* A plausible slip: the key is n_vars, not Reverse(n_vars).
reorder_for_flushing_by_n_vars_Ascending(set, flush_oracle_ids, flush_counts, flush_final_layer_claims) ==
    LET zipped == [i \in 1..Len(flush_oracle_ids) |->
                     <<flush_oracle_ids[i], flush_counts[i], flush_final_layer_claims[i]>>]
        sorted == sort_by_key(zipped, [i \in 1..Len(zipped) |-> n_vars(set, zipped[i][1])])
    IN  <<[i \in 1..Len(sorted) |-> sorted[i][1]],
          [i \in 1..Len(sorted) |-> sorted[i][2]],
          [i \in 1..Len(sorted) |-> sorted[i][3]]>>

\* reorder_for_flushing_by_n_vars: the zipped triples, stably sorted by
\* descending n_vars of the flush oracle.
reorder_for_flushing_by_n_vars(set, flush_oracle_ids, flush_counts, flush_final_layer_claims) ==
    LET zipped == [i \in 1..Len(flush_oracle_ids) |->
                     <<flush_oracle_ids[i], flush_counts[i], flush_final_layer_claims[i]>>]
        sorted == sort_by_key(zipped, [i \in 1..Len(zipped) |-> 0 - n_vars(set, zipped[i][1])])
    IN  <<[i \in 1..Len(sorted) |-> sorted[i][1]],
          [i \in 1..Len(sorted) |-> sorted[i][2]],
          [i \in 1..Len(sorted) |-> sorted[i][3]]>>

\* get_flush_sumcheck_composite_sum_claims: one step_down and one eq_ind
\* transparent per flush oracle, from position i on.
RECURSIVE get_flush_sumcheck_composite_sum_claims(_, _, _, _, _)
get_flush_sumcheck_composite_sum_claims(set, flush_oracle_ids, flush_counts, i, infos) ==
    IF i > Len(flush_oracle_ids) THEN [tag |-> "Ok", err |-> "", set |-> set, ids |-> infos]
    ELSE
      LET nv == n_vars(set, flush_oracle_ids[i])
          sd == transparent(set, [n_vars |-> nv, tower_level |-> 0, poly |-> "step_down"])
          eq == transparent(sd.set, [n_vars |-> nv, tower_level |-> TOWER_LEVEL,
                                     poly |-> "eq_ind"])
      IN  IF sd.tag # "Ok" THEN [tag |-> sd.tag, err |-> sd.err, set |-> set, ids |-> infos]
          ELSE IF eq.tag # "Ok"
          THEN [tag |-> eq.tag, err |-> eq.err, set |-> sd.set, ids |-> infos]
          ELSE get_flush_sumcheck_composite_sum_claims(
                  eq.set, flush_oracle_ids, flush_counts, i + 1,
                  Append(infos, <<sd.id, eq.id>>))

\* log2_ceil_usize
log2_ceil_usize(n) == CHOOSE k \in 0..31 : 2^k >= n /\ \A j \in 0..(k - 1) : 2^j < n

\* The evaluation domain field of the standard PCS has 8 bits.
FDomainBits == 8

Min(S) == CHOOSE x \in S : \A y \in S : x <= y

\* A plausible slip: the final min with max_n_vars is dropped.
max_n_vars_and_skip_rounds_Uncapped(zerocheck_claims, domain_bits) ==
    LET idx == 1..Len(zerocheck_claims)
        max_n_vars == IF idx = {} THEN 0 ELSE Max({zerocheck_claims[i].n_vars : i \in idx})
        saturating_sub(a, b) == IF a >= b THEN a - b ELSE 0
        domain_max_skip_rounds ==
            IF idx = {} THEN 0
            ELSE Min({max_n_vars - zerocheck_claims[i].n_vars
                        + saturating_sub(domain_bits,
                                         log2_ceil_usize(zerocheck_claims[i].degree)) :
                      i \in idx})
    IN  <<max_n_vars, domain_max_skip_rounds>>

\* max_n_vars_and_skip_rounds; a claim is given by its n_vars and its
\* max_individual_degree.
max_n_vars_and_skip_rounds(zerocheck_claims, domain_bits) ==
    LET idx == 1..Len(zerocheck_claims)
        max_n_vars == IF idx = {} THEN 0 ELSE Max({zerocheck_claims[i].n_vars : i \in idx})
        saturating_sub(a, b) == IF a >= b THEN a - b ELSE 0
        domain_max_skip_rounds ==
            IF idx = {} THEN 0
            ELSE Min({max_n_vars - zerocheck_claims[i].n_vars
                        + saturating_sub(domain_bits,
                                         log2_ceil_usize(zerocheck_claims[i].degree)) :
                      i \in idx})
    IN  <<max_n_vars, Min({domain_max_skip_rounds, max_n_vars})>>

\* A plausible slip: the length comparison with n_batches is dropped.
coverage_check_NoLengthCheck(pcs_claims, n) ==
    LET bad == {i \in 1..Len(pcs_claims) : pcs_claims[i] # i - 1}
    IN  IF bad # {} THEN VwErr("UnconstrainedBatch", Min(bad) - 1) ELSE VwOk

\* The coverage check on the claims sorted by batch id; n is oracles.n_batches().
coverage_check(pcs_claims, n) ==
    LET bad == {i \in 1..Len(pcs_claims) : pcs_claims[i] # i - 1}
    IN  IF bad # {} THEN VwErr("UnconstrainedBatch", Min(bad) - 1)
        ELSE IF Len(pcs_claims) < n THEN VwErr("UnconstrainedBatch", Len(pcs_claims))
        ELSE VwOk

\* The loop over izip!(pcs_claims, pcss, commitments), k evaluations left.
RECURSIVE verify_evaluations(_, _, _)
verify_evaluations(advice, transcript, k) ==
    IF k = 0 THEN [tag |-> "Ok", advice |-> advice, transcript |-> transcript]
    ELSE LET r == verify_evaluation(advice, transcript)
         IN  IF r.tag = "Err" THEN r
             ELSE verify_evaluations(r.advice, r.transcript, k - 1)

(***************************************************************************)
(* verify_with_pcs, phase by phase.  A phase takes the ConstraintSystem    *)
(* value it works on (sys) and the local state of the run (s) and gives    *)
(* both back; s.pc names the phase to run next.                            *)
(***************************************************************************)
\* The local state of verify_with_pcs on entry.
new_run(boundaries, proof) ==
    [pc |-> "clone", boundaries |-> boundaries, proof |-> proof,
     transcript |-> new_reader(<<>>), advice |-> new_reader(<<>>),
     commitments |-> <<>>, non_zero_products |-> <<>>,
     mixing_challenge |-> FZero, permutation_challenges |-> <<>>,
     flush_oracle_ids |-> <<>>, flush_counts |-> <<>>, flush_products |-> <<>>,
     flush_transparents_ids |-> <<>>, pcs_claims |-> <<>>,
     trace |-> <<>>, result |-> NotRun]

\* `bail!` / `?`: the run ends with this result.
Done(sys, s, result) == [sys |-> sys, s |-> [s EXCEPT !.pc = "done", !.result = result]]

Goto(sys, s, pc) == [sys |-> sys, s |-> [s EXCEPT !.pc = pc]]

\* constraint_system.clone(), the stable sort of table_constraints by
\* descending n_vars, and the two readers over the proof.
clone_system(sys, s) ==
    LET tc == sys.table_constraints
    IN  Goto([sys EXCEPT !.table_constraints =
                  sort_by_key(tc, [i \in 1..Len(tc) |-> 0 - tc[i].n_vars])],
             [s EXCEPT !.transcript = new_reader(s.proof.transcript),
                       !.advice = new_reader(s.proof.advice)],
             "commit")

\* transcript.read_packed_slice(oracles.n_batches())
read_commitments(sys, s) ==
    LET r == read_slice(s.transcript, n_batches(sys.oracles))
    IN  IF r.tag = "Err" THEN Done(sys, s, VwErr("TranscriptError", 0))
        ELSE Goto(sys, [s EXCEPT !.transcript = r.reader, !.commitments = r.values],
                  "nonzero")

\* A plausible slip: the products are read but not compared with zero.
non_zero_check_NoZeroTest(sys, s) ==
    LET r == read_slice(s.transcript, Len(sys.non_zero_oracle_ids))
    IN  IF r.tag = "Err" THEN Done(sys, s, VwErr("TranscriptError", 0))
        ELSE Goto(sys, [s EXCEPT !.transcript = r.reader, !.non_zero_products = r.values],
                  "flush_setup")

\* The grand products of the non-zero-asserted oracles are read and tested.
non_zero_check(sys, s) ==
    LET r == read_slice(s.transcript, Len(sys.non_zero_oracle_ids))
        t == [s EXCEPT !.transcript = r.reader, !.non_zero_products = r.values]
    IN  IF r.tag = "Err" THEN Done(sys, s, VwErr("TranscriptError", 0))
        ELSE IF \E i \in 1..Len(r.values) : r.values[i] = FZero
        THEN Done(sys, t, VwErr("Zeros", 0))
        ELSE Goto(sys, t, "flush_setup")

\* A plausible slip: the permutation challenges are sampled before the mixing
\* challenge.
flush_setup_PermutationFirst(sys, s) ==
    LET p == sample_vec(s.transcript, sys.max_channel_id + 1)
        m == sample_vec(p.reader, 1)
        fl == sys.flushes
        flushes == sort_by_key(fl, [i \in 1..Len(fl) |-> fl[i].channel_id])
        r == make_flush_oracles(sys.oracles, flushes, m.values[1], p.values)
        sys2 == [sys EXCEPT !.flushes = flushes, !.oracles = r.set]
        t == [s EXCEPT !.transcript = m.reader, !.mixing_challenge = m.values[1],
                       !.permutation_challenges = p.values,
                       !.flush_oracle_ids = r.ids,
                       !.flush_counts = [i \in 1..Len(flushes) |-> flushes[i].count]]
    IN  IF r.tag = "Err" THEN Done(sys2, t, VwErr(r.err, 0))
        ELSE IF r.tag = "Panic" THEN Done(sys2, t, VwPanic(r.err))
        ELSE Goto(sys2, t, "balance")

\* A plausible slip: the challenges are taken without advancing the challenger.
flush_setup_ChallengerNotAdvanced(sys, s) ==
    LET m == sample_vec(s.transcript, 1)
        p == sample_vec(m.reader, sys.max_channel_id + 1)
        fl == sys.flushes
        flushes == sort_by_key(fl, [i \in 1..Len(fl) |-> fl[i].channel_id])
        r == make_flush_oracles(sys.oracles, flushes, m.values[1], p.values)
        sys2 == [sys EXCEPT !.flushes = flushes, !.oracles = r.set]
        t == [s EXCEPT !.mixing_challenge = m.values[1],
                       !.permutation_challenges = p.values,
                       !.flush_oracle_ids = r.ids,
                       !.flush_counts = [i \in 1..Len(flushes) |-> flushes[i].count]]
    IN  IF r.tag = "Err" THEN Done(sys2, t, VwErr(r.err, 0))
        ELSE IF r.tag = "Panic" THEN Done(sys2, t, VwPanic(r.err))
        ELSE Goto(sys2, t, "balance")

\* The challenges are sampled, the flushes sorted by channel id and the flush
\* oracles added to the working oracle set.
flush_setup(sys, s) ==
    LET m == sample_vec(s.transcript, 1)
        p == sample_vec(m.reader, sys.max_channel_id + 1)
        fl == sys.flushes
        flushes == sort_by_key(fl, [i \in 1..Len(fl) |-> fl[i].channel_id])
        r == make_flush_oracles(sys.oracles, flushes, m.values[1], p.values)
        sys2 == [sys EXCEPT !.flushes = flushes, !.oracles = r.set]
        t == [s EXCEPT !.transcript = p.reader, !.mixing_challenge = m.values[1],
                       !.permutation_challenges = p.values,
                       !.flush_oracle_ids = r.ids,
                       !.flush_counts = [i \in 1..Len(flushes) |-> flushes[i].count]]
    IN  IF r.tag = "Err" THEN Done(sys2, t, VwErr(r.err, 0))
        ELSE IF r.tag = "Panic" THEN Done(sys2, t, VwPanic(r.err))
        ELSE Goto(sys2, t, "balance")

\* A plausible slip: one product is read per flush, not per flush oracle.
channel_balance_ProductPerFlush(sys, s) ==
    LET r == read_slice(s.transcript, Len(sys.flushes))
        b == verify_channels_balance(sys.flushes, r.values, s.boundaries,
                                     s.mixing_challenge, s.permutation_challenges)
        t == [s EXCEPT !.transcript = r.reader, !.flush_products = r.values]
    IN  IF r.tag = "Err" THEN Done(sys, s, VwErr("TranscriptError", 0))
        ELSE IF b # VwOk THEN Done(sys, t, b)
        ELSE Goto(sys, t, "gkr")

\* The flush products are read and verify_channels_balance is applied.
channel_balance(sys, s) ==
    LET r == read_slice(s.transcript, Len(s.flush_oracle_ids))
        b == verify_channels_balance(sys.flushes, r.values, s.boundaries,
                                     s.mixing_challenge, s.permutation_challenges)
        t == [s EXCEPT !.transcript = r.reader, !.flush_products = r.values]
    IN  IF r.tag = "Err" THEN Done(sys, s, VwErr("TranscriptError", 0))
        ELSE IF b # VwOk THEN Done(sys, t, b)
        ELSE Goto(sys, t, "gkr")

\* A plausible slip: the verdict of the GKR verifier is dropped.
gkr_IgnoresVerdict(sys, s) ==
    LET r == batch_verify(s.transcript)
    IN  Goto(sys, [s EXCEPT !.transcript = r.reader], "flush_sumcheck")

\* gkr_gpa::batch_verify over the flush and the non-zero claims.
gkr(sys, s) ==
    LET r == batch_verify(s.transcript)
    IN  IF r.tag = "Err" THEN Done(sys, s, VwErr(r.err, 0))
        ELSE Goto(sys, [s EXCEPT !.transcript = r.reader], "flush_sumcheck")

\* The flush oracles are reordered, their step_down and eq_ind transparents
\* added to the working oracle set, and the flush sumcheck verified.
flush_sumcheck(sys, s) ==
    LET o == reorder_for_flushing_by_n_vars(
                sys.oracles, s.flush_oracle_ids, s.flush_counts,
                [i \in 1..Len(s.flush_oracle_ids) |-> i])
        c == get_flush_sumcheck_composite_sum_claims(sys.oracles, o[1], o[2], 1, <<>>)
        sys2 == [sys EXCEPT !.oracles = c.set]
        t == [s EXCEPT !.flush_oracle_ids = o[1], !.flush_counts = o[2],
                       !.flush_transparents_ids = c.ids]
        r == batch_verify(s.transcript)
    IN  IF c.tag # "Ok" THEN Done(sys2, t, VwErr(c.err, 0))
        ELSE IF r.tag = "Err" THEN Done(sys2, t, VwErr(r.err, 0))
        ELSE Goto(sys2, [t EXCEPT !.transcript = r.reader], "zerocheck")

\* The zerocheck challenges are sampled and the zerocheck verifiers (univariate
\* round, sumchecks, univariatizing reduction) run; one verdict stands for them.
zerocheck(sys, s) ==
    LET m == max_n_vars_and_skip_rounds(sys.table_constraints, FDomainBits)
        c == sample_vec(s.transcript, m[1] - m[2])
        r == batch_verify(c.reader)
    IN  IF r.tag = "Err" THEN Done(sys, s, VwErr(r.err, 0))
        ELSE Goto(sys, [s EXCEPT !.transcript = r.reader], "evalcheck")

\* greedy_evalcheck::verify
evalcheck(sys, s) ==
    LET r == greedy_evalcheck_verify(sys.oracles, s.transcript, s.advice)
    IN  IF r.tag = "Err" THEN Done(sys, s, VwErr(r.err, 0))
        ELSE Goto(sys, [s EXCEPT !.transcript = r.transcript, !.advice = r.advice,
                                 !.pcs_claims = r.pcs_claims],
                  "coverage")

\* pcs_claims.sort_by_key(batch_id) and the coverage check.
coverage(sys, s) ==
    LET sorted == sort_by_key(s.pcs_claims, s.pcs_claims)
        r == coverage_check(sorted, n_batches(sys.oracles))
        t == [s EXCEPT !.pcs_claims = sorted]
    IN  IF r # VwOk THEN Done(sys, t, r) ELSE Goto(sys, t, "pcs")

\* One verify_evaluation per (claim, pcs, commitment); there is one pcs per
\* batch.
pcs(sys, s) ==
    LET r == verify_evaluations(s.advice, s.transcript,
                                Min({Len(s.pcs_claims), n_batches(sys.oracles),
                                     Len(s.commitments)}))
    IN  IF r.tag = "Err" THEN Done(sys, s, VwErr("PolyCommitError", 0))
        ELSE Goto(sys, [s EXCEPT !.transcript = r.transcript, !.advice = r.advice],
                  "finalize")

\* A plausible slip: only the transcript is finalized.
finalize_readers_TranscriptOnly(sys, s) ==
    IF ~finalize(s.transcript) THEN Done(sys, s, VwErr("TranscriptError", 0))
    ELSE Done(sys, s, VwOk)

\* transcript.finalize()?; advice.finalize()?; Ok(())
finalize_readers(sys, s) ==
    IF ~finalize(s.transcript) THEN Done(sys, s, VwErr("TranscriptError", 0))
    ELSE IF ~finalize(s.advice) THEN Done(sys, s, VwErr("TranscriptError", 0))
    ELSE Done(sys, s, VwOk)

\* The run's trace gets the name of the phase it executes.
Traced(s) == [s EXCEPT !.trace = Append(@, s.pc)]

\* The phase s.pc names.
Step(sys, s) ==
    CASE s.pc = "clone" -> clone_system(sys, Traced(s))
      [] s.pc = "commit" -> read_commitments(sys, Traced(s))
      [] s.pc = "nonzero" -> non_zero_check(sys, Traced(s))
      [] s.pc = "flush_setup" -> flush_setup(sys, Traced(s))
      [] s.pc = "balance" -> channel_balance(sys, Traced(s))
      [] s.pc = "gkr" -> gkr(sys, Traced(s))
      [] s.pc = "flush_sumcheck" -> flush_sumcheck(sys, Traced(s))
      [] s.pc = "zerocheck" -> zerocheck(sys, Traced(s))
      [] s.pc = "evalcheck" -> evalcheck(sys, Traced(s))
      [] s.pc = "coverage" -> coverage(sys, Traced(s))
      [] s.pc = "pcs" -> pcs(sys, Traced(s))
      [] s.pc = "finalize" -> finalize_readers(sys, Traced(s))

\* The phases in sequence, to the end of the run.
RECURSIVE run_to_end(_, _)
run_to_end(sys, s) ==
    IF s.pc = "done" THEN [sys |-> sys, s |-> s]
    ELSE LET r == Step(sys, s) IN run_to_end(r.sys, r.s)

\* verify_with_pcs, run alone on constraint_system.
verify_with_pcs(constraint_system, boundaries, proof) ==
    run_to_end(constraint_system, new_run(boundaries, proof))

(***************************************************************************)
(* SpecVerify and SpecConcurrent: runs of verify_with_pcs against the      *)
(* caller's ConstraintSystem, which lives at location 0 of the heap; run v *)
(* owns the location working(v) once it has cloned.                        *)
(***************************************************************************)
\* A plausible slip: the run works on the caller's value instead of a clone.
working_InPlace(v) == 0

\* The location of the value `constraint_system.clone()` gives run v.
working(v) == v

\* A plausible slip: a run clones the working value of the run before it.
clone_source_Previous(v) == v - 1

\* The location of the caller's `&ConstraintSystem`, which every run clones.
clone_source(v) == 0

NoSystem ==
    [oracles |-> <<>>, table_constraints |-> <<>>, non_zero_oracle_ids |-> <<>>,
     flushes |-> <<>>, max_channel_id |-> 0]

ConstraintSet(nv, degree, name) == [n_vars |-> nv, degree |-> degree, name |-> name]

\* Two committed columns of different sizes, one non-zero assertion, a flush on
\* each of two channels (listed against the channel order), two tables (listed
\* against the n_vars order).
System1 ==
    [oracles |-> committed(committed(new, 1, 0).set, 2, 0).set,
     table_constraints |-> <<ConstraintSet(1, 2, "small"), ConstraintSet(2, 1, "large")>>,
     non_zero_oracle_ids |-> <<0>>,
     flushes |-> <<Flush(<<1>>, 1, "Push", 2, 1), Flush(<<0>>, 0, "Pull", 1, 1)>>,
     max_channel_id |-> 1]

\* One committed column, one table, no flushes.
System2 ==
    [oracles |-> committed(new, 1, 0).set,
     table_constraints |-> <<ConstraintSet(1, 1, "only")>>,
     non_zero_oracle_ids |-> <<>>,
     flushes |-> <<>>,
     max_channel_id |-> 0]

\* One committed column flushed on channel 0 and on channel 2, which is above
\* max_channel_id; no table.
System3 ==
    [oracles |-> committed(new, 1, 0).set,
     table_constraints |-> <<>>,
     non_zero_oracle_ids |-> <<>>,
     flushes |-> <<Flush(<<0>>, 2, "Pull", 1, 1), Flush(<<0>>, 0, "Push", 1, 1)>>,
     max_channel_id |-> 1]

ConstraintSystems == {System1, System2, System3}

\* Bound on the number of committed-batch claims the advice describes.
MaxClaims == 2

Tokens(n, t) == [i \in 1..n |-> t]

FailArgs == {"none", "gkr", "flush_sumcheck", "zerocheck", "evalcheck", "pcs", "truncated"}

\* <<unread tokens after the transcript, unread tokens after the advice>>
TrailingArgs == {<<0, 0>>, <<1, 0>>, <<0, 1>>}

\* The proof stream a prover would send for cs, with the claimed products nz and
\* fp, the sub-protocol material that `fail` names made invalid, the batch ids
\* the evalcheck advice describes, and trailing tokens.
BuildProof(cs, nz, fp, fail, ids, trailing) ==
    LET nb == n_batches(cs.oracles)
        V(x) == IF fail = x THEN 0 ELSE 1
        body == Tokens(nb, 1) \o nz \o fp
                \o <<V("gkr"), V("flush_sumcheck"), V("zerocheck"), V("evalcheck")>>
                \o Tokens(nb, V("pcs")) \o Tokens(trailing[1], 1)
    IN  [transcript |-> IF fail = "truncated" THEN SubSeq(body, 1, nb + Len(nz)) ELSE body,
         advice |-> <<Len(ids)>> \o ids \o Tokens(nb, 1) \o Tokens(trailing[2], 1)]

BatchLists(cs) == SeqsUpTo(0..(n_batches(cs.oracles) - 1), MaxClaims)

NonZeroProductArgs(cs) == [1..Len(cs.non_zero_oracle_ids) -> {0, 1, 2}]

FlushProductArgs(cs) ==
    {fp \in [1..Len(cs.flushes) -> F] : \A i \in 2..Len(fp) : fp[i] \in {1, 2}}

Proofs(cs) ==
    {BuildProof(cs, nz, fp, fail, ids, tr) :
        nz \in NonZeroProductArgs(cs), fp \in FlushProductArgs(cs), fail \in FailArgs,
        ids \in BatchLists(cs), tr \in TrailingArgs}

VerifyBoundaryArgs == {<<>>, <<Boundary(<<1>>, 0, "Push", 1)>>}

\* The few proofs of the concurrent runs.
ConcurrentProofs(cs) ==
    {BuildProof(cs, nz, [i \in 1..Len(cs.flushes) |-> FOne], fail, ids, <<0, 0>>) :
        nz \in [1..Len(cs.non_zero_oracle_ids) -> {0, 1}],
        fail \in {"none", "zerocheck"},
        ids \in {[i \in 1..n_batches(cs.oracles) |-> i - 1], <<0>>}}

InitRuns(V, cs, args) ==
    /\ caller = cs
    /\ heap = [l \in {0} \cup V |-> IF l = 0 THEN cs ELSE NoSystem]
    /\ runs = [v \in V |-> new_run(args[v][1], args[v][2])]

InitVerify ==
    /\ IdleOracle
    /\ IdleChannel
    /\ IdleBalance
    /\ IdleBuilder
    /\ IdleFlush
    /\ IdleSerial
    /\ IdleFunction
    /\ \E cs \in ConstraintSystems :
         \E b \in VerifyBoundaryArgs, proof \in Proofs(cs) :
            InitRuns({1}, cs, <<<<b, proof>>>>)

InitConcurrent ==
    /\ IdleOracle
    /\ IdleChannel
    /\ IdleBalance
    /\ IdleBuilder
    /\ IdleFlush
    /\ IdleSerial
    /\ IdleFunction
    /\ \E cs \in ConstraintSystems :
         \E p1 \in ConcurrentProofs(cs), p2 \in ConcurrentProofs(cs) :
            InitRuns({1, 2}, cs, <<<<<<>>, p1>>, <<<<>>, p2>>>>)

\* Run v has executed a phase with outcome r: its local state and the value
\* it works on are written back.
Commit(v, r) ==
    /\ runs' = [runs EXCEPT ![v] = r.s]
    /\ heap' = [heap EXCEPT ![working(v)] = r.sys]
    /\ UNCHANGED <<caller, oracleVars, channelVars, balanceVars, builderVars, flushVars, serialVars, functionVars>>

CloneSystem ==
    \E v \in DOMAIN runs :
        /\ runs[v].pc = "clone"
        /\ Commit(v, clone_system(heap[clone_source(v)], Traced(runs[v])))

ReadCommitments ==
    \E v \in DOMAIN runs :
        /\ runs[v].pc = "commit"
        /\ Commit(v, read_commitments(heap[working(v)], Traced(runs[v])))

NonZeroCheck ==
    \E v \in DOMAIN runs :
        /\ runs[v].pc = "nonzero"
        /\ Commit(v, non_zero_check(heap[working(v)], Traced(runs[v])))

FlushSetup ==
    \E v \in DOMAIN runs :
        /\ runs[v].pc = "flush_setup"
        /\ Commit(v, flush_setup(heap[working(v)], Traced(runs[v])))

ChannelBalance ==
    \E v \in DOMAIN runs :
        /\ runs[v].pc = "balance"
        /\ Commit(v, channel_balance(heap[working(v)], Traced(runs[v])))

Gkr ==
    \E v \in DOMAIN runs :
        /\ runs[v].pc = "gkr"
        /\ Commit(v, gkr(heap[working(v)], Traced(runs[v])))

FlushSumcheck ==
    \E v \in DOMAIN runs :
        /\ runs[v].pc = "flush_sumcheck"
        /\ Commit(v, flush_sumcheck(heap[working(v)], Traced(runs[v])))

Zerocheck ==
    \E v \in DOMAIN runs :
        /\ runs[v].pc = "zerocheck"
        /\ Commit(v, zerocheck(heap[working(v)], Traced(runs[v])))

Evalcheck ==
    \E v \in DOMAIN runs :
        /\ runs[v].pc = "evalcheck"
        /\ Commit(v, evalcheck(heap[working(v)], Traced(runs[v])))

Coverage ==
    \E v \in DOMAIN runs :
        /\ runs[v].pc = "coverage"
        /\ Commit(v, coverage(heap[working(v)], Traced(runs[v])))

Pcs ==
    \E v \in DOMAIN runs :
        /\ runs[v].pc = "pcs"
        /\ Commit(v, pcs(heap[working(v)], Traced(runs[v])))

Finalize ==
    \E v \in DOMAIN runs :
        /\ runs[v].pc = "finalize"
        /\ Commit(v, finalize_readers(heap[working(v)], Traced(runs[v])))

NextVerify ==
    \/ CloneSystem
    \/ ReadCommitments
    \/ NonZeroCheck
    \/ FlushSetup
    \/ ChannelBalance
    \/ Gkr
    \/ FlushSumcheck
    \/ Zerocheck
    \/ Evalcheck
    \/ Coverage
    \/ Pcs
    \/ Finalize

SpecVerify == InitVerify /\ [][NextVerify]_vars

SpecConcurrent == InitConcurrent /\ [][NextVerify]_vars

(***************************************************************************)
(* Properties of verify_with_pcs.                                          *)
(***************************************************************************)
\* The phase has been executed by the run.
Ran(r, phase) == phase \in Range(r.trace)

\* Every batch id 0..n-1 appears exactly once among the claims, and nothing else.
ExactCoverage(claims, n) ==
    /\ Len(claims) = n
    /\ \A b \in 0..(n - 1) : Cardinality({i \in 1..Len(claims) : claims[i] = b}) = 1

\* C3: PCS verification is reached only when the evaluation claims evalcheck
\* returned carry the batch ids 0..n_batches-1, each exactly once; when a batch
\* id is missing or duplicated the run ends at the coverage check with
\* UnconstrainedBatch.
C3_CoverageGate ==
    \A v \in DOMAIN runs :
      LET r == runs[v]
          n == n_batches(caller.oracles)
      IN  /\ Ran(r, "pcs") => ExactCoverage(r.pcs_claims, n)
          /\ (Ran(r, "coverage") /\ ~ExactCoverage(r.pcs_claims, n))
                => /\ r.pc = "done"
                   /\ r.result.tag = "Err"
                   /\ r.result.err = "UnconstrainedBatch"

\* A proof valid in every other part whose advice names batch 0 twice and
\* batch 1 never ends with UnconstrainedBatch(1).
C3_Witness ==
    \E v \in DOMAIN runs :
        /\ caller = System1
        /\ runs[v].pcs_claims = <<0, 0>>
        /\ runs[v].result = VwErr("UnconstrainedBatch", 1)
        /\ runs[v].proof.transcript = <<1, 1, 1, 1, 1, 1, 1, 1, 1, 1, 1>>

\* The claimed products of the non-zero-asserted oracles, as the proof holds
\* them after the commitments.
NonZeroProductsOf(r) ==
    LET nb == n_batches(caller.oracles)
    IN  SubSeq(r.proof.transcript, nb + 1, nb + Len(caller.non_zero_oracle_ids))

LaterPhases == {"gkr", "flush_sumcheck", "zerocheck", "evalcheck", "pcs"}

\* C4: once the claimed products of the non-zero-asserted oracles have been
\* read and one of them is zero, the run has ended with the Zeros error and no
\* GKR, sumcheck, zerocheck, evalcheck or PCS phase has been executed.
C4_ZerosStopsRun ==
    \A v \in DOMAIN runs :
      LET r == runs[v]
          products == NonZeroProductsOf(r)
      IN  (/\ Ran(r, "nonzero")
           /\ Len(products) = Len(caller.non_zero_oracle_ids)
           /\ \E i \in 1..Len(products) : products[i] = FZero)
             => /\ r.pc = "done"
                /\ r.result = VwErr("Zeros", 0)
                /\ Range(r.trace) \cap LaterPhases = {}

C4_Witness ==
    \E v \in DOMAIN runs :
        /\ runs[v].result = VwErr("Zeros", 0)
        /\ runs[v].non_zero_products = <<FZero>>

Unread(reader, data) == Len(data) - reader.pos

\* C5: a run returns Ok only after the PCS phase and with no unread token in
\* the transcript and none in the advice; a run that reaches finalize with an
\* unread token in either stream ends with an error.
C5_FinalizeConsumesAll ==
    \A v \in DOMAIN runs :
      LET r == runs[v]
          left == Unread(r.transcript, r.proof.transcript) + Unread(r.advice, r.proof.advice)
      IN  /\ r.result = VwOk => (Ran(r, "pcs") /\ Ran(r, "finalize") /\ left = 0)
          /\ (r.pc = "done" /\ Ran(r, "finalize") /\ left > 0) => r.result.tag = "Err"

\* A run that passed PCS verification, read the whole transcript and left one
\* token of the advice unread.
C5_Witness ==
    \E v \in DOMAIN runs :
        /\ runs[v].pc = "done"
        /\ Ran(runs[v], "finalize")
        /\ runs[v].result.tag = "Err"
        /\ Unread(runs[v].transcript, runs[v].proof.transcript) = 0
        /\ Unread(runs[v].advice, runs[v].proof.advice) = 1

\* C6: the caller's ConstraintSystem is at every moment of a run, and after it
\* whatever its result, the value the caller built: same oracle set, same order
\* of table_constraints and flushes.
C6_CallerUnchanged == heap[0] = caller

\* A finished run whose private clone got flush oracles, step_down and eq_ind
\* transparents, and reordered flushes and table_constraints.
C6_Witness ==
    \E v \in DOMAIN runs :
        /\ runs[v].pc = "done"
        /\ runs[v].flush_transparents_ids # <<>>
        /\ Len(heap[v].oracles) = Len(caller.oracles) + 3 * Len(caller.flushes)
        /\ heap[v].flushes # caller.flushes
        /\ heap[v].table_constraints # caller.table_constraints

\* The first k phases of a run that is alone with the system.
RECURSIVE run_steps(_, _, _)
run_steps(sys, s, k) ==
    IF k = 0 \/ s.pc = "done" THEN [sys |-> sys, s |-> s]
    ELSE LET r == Step(sys, s) IN run_steps(r.sys, r.s, k - 1)

\* C7: however the phases of two runs against one shared ConstraintSystem are
\* interleaved, each run is at every moment in the state it would be in after
\* the same number of phases run alone: same result, same handles of the flush
\* oracles and their transparents, same working oracle set.
C7_RunsIndependent ==
    \A v \in DOMAIN runs :
      LET r == runs[v]
          alone == run_steps(caller, new_run(r.boundaries, r.proof), Len(r.trace))
      IN  /\ r = alone.s
          /\ r.trace # <<>> => heap[v] = alone.sys

\* Two finished runs of different proofs, one accepted and one rejected after
\* both got their ephemeral oracles.
C7_Witness ==
    /\ DOMAIN runs = {1, 2}
    /\ runs[1].result = VwOk
    /\ runs[2].result.tag = "Err"
    /\ runs[2].flush_transparents_ids # <<>>
    /\ runs[1].flush_oracle_ids = runs[2].flush_oracle_ids

(***************************************************************************)
(* ConstraintSetBuilder (oracle/constraint.rs).  A composition is an       *)
(* ArithExpr tree; a node is a record of one shape: Const holds its value  *)
(* in a, Var its index in a, Add and Mul their operands in a and b, Pow    *)
(* its base in a and its exponent in b.                                    *)
(***************************************************************************)
ArithExpr(kind, a, b) == [kind |-> kind, a |-> a, b |-> b]

\* A plausible slip: a variable `indices` has no entry for is left as it is.
RECURSIVE remap_vars_KeepsUnknown(_, _)
remap_vars_KeepsUnknown(expr, indices) ==
    CASE expr.kind = "Const" -> [tag |-> "Ok", expr |-> expr]
      [] expr.kind = "Var" ->
            IF expr.a < Len(indices)
            THEN [tag |-> "Ok", expr |-> ArithExpr("Var", indices[expr.a + 1], 0)]
            ELSE [tag |-> "Ok", expr |-> expr]
      [] expr.kind \in {"Add", "Mul"} ->
            LET new_left == remap_vars_KeepsUnknown(expr.a, indices)
                new_right == remap_vars_KeepsUnknown(expr.b, indices)
            IN  [tag |-> "Ok", expr |-> ArithExpr(expr.kind, new_left.expr, new_right.expr)]
      [] expr.kind = "Pow" ->
            LET new_base == remap_vars_KeepsUnknown(expr.a, indices)
            IN  [tag |-> "Ok", expr |-> ArithExpr("Pow", new_base.expr, expr.b)]

\* ArithExpr::remap_vars: Var(i) becomes Var(indices[i]); an index that
\* `indices` does not have is the error IncorrectArgumentLength.
RECURSIVE remap_vars(_, _)
remap_vars(expr, indices) ==
    CASE expr.kind = "Const" -> [tag |-> "Ok", expr |-> expr]
      [] expr.kind = "Var" ->
            IF expr.a < Len(indices)
            THEN [tag |-> "Ok", expr |-> ArithExpr("Var", indices[expr.a + 1], 0)]
            ELSE [tag |-> "Err", expr |-> expr]
      [] expr.kind \in {"Add", "Mul"} ->
            LET new_left == remap_vars(expr.a, indices)
                new_right == remap_vars(expr.b, indices)
            IN  IF new_left.tag = "Err" THEN new_left
                ELSE IF new_right.tag = "Err" THEN new_right
                ELSE [tag |-> "Ok", expr |-> ArithExpr(expr.kind, new_left.expr, new_right.expr)]
      [] expr.kind = "Pow" ->
            LET new_base == remap_vars(expr.a, indices)
            IN  IF new_base.tag = "Err" THEN new_base
                ELSE [tag |-> "Ok", expr |-> ArithExpr("Pow", new_base.expr, expr.b)]

positions_Identity(subset, superset) ==
    [tag |-> "Some", indices |-> [i \in 1..Len(subset) |-> i - 1]]

\* positions: the index, from 0, of the first match of every subset element
\* within the superset, None when an element is missing.
positions(subset, superset) ==
    LET position(x) ==
            (CHOOSE k \in 1..Len(superset) :
                superset[k] = x /\ \A j \in 1..(k - 1) : superset[j] # x) - 1
    IN  IF \A i \in 1..Len(subset) : subset[i] \in Range(superset)
        THEN [tag |-> "Some", indices |-> [i \in 1..Len(subset) |-> position(subset[i])]]
        ELSE [tag |-> "None", indices |-> <<>>]

\* slice::sort on oracle ids.
sort(s) == sort_by_key(s, s)

dedup_KeepsAll(s) == s

\* Vec::dedup: consecutive repeated elements are removed.
RECURSIVE dedup(_)
dedup(s) ==
    IF Len(s) <= 1 THEN s
    ELSE IF s[1] = s[2] THEN dedup(Tail(s))
    ELSE <<s[1]>> \o dedup(Tail(s))

\* flat_map(|constraint| constraint.oracle_ids.clone()).collect()
RECURSIVE flat_oracle_ids(_)
flat_oracle_ids(constraints) ==
    IF constraints = <<>> THEN <<>>
    ELSE Head(constraints).oracle_ids \o flat_oracle_ids(Tail(constraints))

UngroupedConstraint(name, oracle_ids, composition, predicate) ==
    [name |-> name, oracle_ids |-> oracle_ids, composition |-> composition,
     predicate |-> predicate]

\* ConstraintSetBuilder::add_sumcheck
add_sumcheck(constraints, oracle_ids, composition, sum) ==
    Append(constraints,
           UngroupedConstraint("sumcheck", oracle_ids, composition, <<"Sum", sum>>))

\* ConstraintSetBuilder::add_zerocheck
add_zerocheck(constraints, name, oracle_ids, composition) ==
    Append(constraints, UngroupedConstraint(name, oracle_ids, composition, <<"Zero">>))

\* The result of build and build_one: Ok with the constraint sets, Err with the
\* kind of error, or Panic with the message of the failed expect.
Built(tag, err, sets) == [tag |-> tag, err |-> err, sets |-> sets]

\* A plausible slip: only the handles are checked, not the numbers of variables.
check_oracle_ids_HandlesOnly(set, oracle_ids) ==
    IF \E i \in 1..Len(oracle_ids) : ~is_valid_oracle_id(set, oracle_ids[i])
    THEN "InvalidOracleId"
    ELSE "Ok"

\* The checks both build and build_one run on a list of oracle ids: every id
\* is valid, and every oracle has the n_vars of the first.
check_oracle_ids(set, oracle_ids) ==
    IF \E i \in 1..Len(oracle_ids) : ~is_valid_oracle_id(set, oracle_ids[i])
    THEN "InvalidOracleId"
    ELSE IF \E i \in 1..Len(oracle_ids) : n_vars(set, oracle_ids[i]) # n_vars(set, oracle_ids[1])
    THEN "ConstraintSetNvarsMismatch"
    ELSE "Ok"

\* The closure both functions map over the constraints: the composition is
\* remapped onto the positions of the constraint's oracles in oracle_ids.
remap_constraint(constraint, oracle_ids) ==
    LET p == positions(constraint.oracle_ids, oracle_ids)
        e == remap_vars(constraint.composition, p.indices)
    IN  IF p.tag = "None" \/ e.tag = "Err" THEN [tag |-> "Panic"]
        ELSE [tag |-> "Ok", name |-> constraint.name, composition |-> e.expr,
              predicate |-> constraint.predicate]

\* The ConstraintSet of a list of constraints whose oracles are checked:
\* the tail of build_one and the per-group closure of build.
constraint_set_of(nv, constraints) ==
    LET oracle_ids == dedup(sort(flat_oracle_ids(constraints)))
        remapped == [k \in 1..Len(constraints) |-> remap_constraint(constraints[k], oracle_ids)]
    IN  IF \E k \in 1..Len(constraints) : remapped[k].tag = "Panic"
        THEN [tag |-> "Panic"]
        ELSE [tag |-> "Ok", n_vars |-> nv, oracle_ids |-> oracle_ids,
              constraints |-> [k \in 1..Len(constraints) |->
                                 [name |-> remapped[k].name,
                                  composition |-> remapped[k].composition,
                                  predicate |-> remapped[k].predicate]]]

\* ConstraintSetBuilder::build_one
build_one(constraints, set) ==
    LET oracle_ids == flat_oracle_ids(constraints)
        checked == check_oracle_ids(set, oracle_ids)
        sorted == dedup(sort(oracle_ids))
        built_set == constraint_set_of(n_vars(set, sorted[1]), constraints)
    IN  IF oracle_ids = <<>> THEN Built("Err", "EmptyConstraintSet", <<>>)
        ELSE IF checked # "Ok" THEN Built("Err", checked, <<>>)
        ELSE IF built_set.tag = "Panic"
        THEN Built("Panic", "Infallible by ConstraintSetBuilder invariants.", <<>>)
        ELSE Built("Ok", "", <<[n_vars |-> built_set.n_vars, oracle_ids |-> built_set.oracle_ids,
                        constraints |-> built_set.constraints]>>)

connected_oracle_chunks_ConstraintsOnly(constraints, set) ==
    [k \in 1..Len(constraints) |-> constraints[k].oracle_ids]

\* build, connected_oracle_chunks: the oracle list of every constraint, then
\* for every Shifted oracle [id, inner id] and for every LinearCombination
\* oracle its inner ids followed by its id.
connected_oracle_chunks(constraints, set) ==
    LET links(o) == IF o.kind = "Shifted" THEN <<<<o.id, o.inner[1]>>>>
                    ELSE IF o.kind = "LinearCombination" THEN <<o.inner \o <<o.id>>>>
                    ELSE <<>>
        RECURSIVE chain(_)
        chain(k) == IF k > Len(set) THEN <<>> ELSE links(set[k]) \o chain(k + 1)
    IN  [k \in 1..Len(constraints) |-> constraints[k].oracle_ids] \o chain(1)

\* binius_utils::graph::connected_components: for every node 0..max the least
\* node of its component; every chunk joins the components of its nodes.
connected_components(data) ==
    LET nodes == UNION {Range(data[k]) : k \in 1..Len(data)}
        n == IF nodes = {} THEN 0 ELSE Max(nodes) + 1
        RECURSIVE union_chunks(_, _)
        union_chunks(labels, k) ==
            IF k > Len(data) THEN labels
            ELSE LET joined == {labels[x + 1] : x \in Range(data[k])}
                     min_label == CHOOSE m \in joined : \A l \in joined : m <= l
                 IN  IF data[k] = <<>> THEN union_chunks(labels, k + 1)
                     ELSE union_chunks([i \in 1..n |-> IF labels[i] \in joined
                                                       THEN min_label ELSE labels[i]],
                                       k + 1)
    IN  union_chunks([i \in 1..n |-> i - 1], 1)

\* build, n_vars_and_constraints: the first constraint, in the order added,
\* that fails a check decides the error.
RECURSIVE first_constraint_error(_, _)
first_constraint_error(constraints, set) ==
    IF constraints = <<>> THEN "Ok"
    ELSE LET ids == Head(constraints).oracle_ids
             checked == check_oracle_ids(set, ids)
         IN  IF ids = <<>> THEN "EmptyConstraintSet"
             ELSE IF checked # "Ok" THEN checked
             ELSE first_constraint_error(Tail(constraints), set)

\* Itertools::chunk_by: maximal runs of consecutive elements with equal keys.
RECURSIVE chunk_by(_, _)
chunk_by(s, keys) ==
    IF s = <<>> THEN <<>>
    ELSE LET run == CHOOSE n \in 1..Len(s) :
                       /\ \A i \in 1..n : keys[i] = keys[1]
                       /\ n = Len(s) \/ keys[n + 1] # keys[1]
         IN  <<SubSeq(s, 1, run)>> \o
                 chunk_by(SubSeq(s, run + 1, Len(s)), SubSeq(keys, run + 1, Len(keys)))

\* ConstraintSetBuilder::build
build(constraints, set) ==
    LET groups == connected_components(connected_oracle_chunks(constraints, set))
        failed == first_constraint_error(constraints, set)
        keys == [k \in 1..Len(constraints) |-> groups[constraints[k].oracle_ids[1] + 1]]
        grouped_constraints ==
            chunk_by(sort_by_key(constraints, keys), sort_by_key(keys, keys))
        constraint_sets ==
            [g \in 1..Len(grouped_constraints) |->
                constraint_set_of(n_vars(set, grouped_constraints[g][1].oracle_ids[1]),
                                  grouped_constraints[g])]
    IN  IF failed # "Ok" THEN Built("Err", failed, <<>>)
        ELSE IF \E g \in 1..Len(constraint_sets) : constraint_sets[g].tag = "Panic"
        THEN Built("Panic", "Infallible by ConstraintSetBuilder invariants.", <<>>)
        ELSE Built("Ok", "", [g \in 1..Len(constraint_sets) |->
                        [n_vars |-> constraint_sets[g].n_vars,
                         oracle_ids |-> constraint_sets[g].oracle_ids,
                         constraints |-> constraint_sets[g].constraints]])

(***************************************************************************)
(* SpecBuilder: constraints are added to a ConstraintSetBuilder over an    *)
(* oracle set built with add_*, then build or build_one consumes it.       *)
(***************************************************************************)
MaxConstraints == 3

\* Oracle 2 is a shift of oracle 0; oracles 0, 1, 2 have one variable, oracle 3 two.
ShiftedSet ==
    LET s1 == committed(new, 1, 0).set
        s2 == committed(s1, 1, 0).set
        s3 == shifted(s2, 0, 1, 1, "LogicalLeft").set
    IN  committed(s3, 2, 0).set

\* Oracle 3 is a linear combination of oracles 0 and 1; oracle 2 has two variables.
CombinedSet ==
    LET s1 == committed(new, 1, 0).set
        s2 == committed(s1, 1, 0).set
        s3 == committed(s2, 2, 0).set
    IN  linear_combination(s3, 1, <<<<0, FOne>>, <<1, 2>>>>).set

BuilderOracleSets == {ShiftedSet, CombinedSet}

x0 == ArithExpr("Var", 0, 0)

x1 == ArithExpr("Var", 1, 0)

\* The oracle list and the composition of a constraint: single oracles, a
\* repeated oracle, lists that mix numbers of variables, an invalid handle, an
\* empty list, and a composition over more variables than oracles are listed.
ConstraintArgs ==
    {<<<<0>>, x0>>,
     <<<<1>>, ArithExpr("Pow", x0, 2)>>,
     <<<<3>>, ArithExpr("Add", x0, ArithExpr("Const", FOne, 0))>>,
     <<<<2, 1>>, ArithExpr("Mul", x1, x0)>>,
     <<<<1, 2, 1>>, ArithExpr("Add", ArithExpr("Var", 2, 0), ArithExpr("Mul", x0, x1))>>,
     <<<<0, 2>>, ArithExpr("Mul", x0, x1)>>,
     <<<<4>>, x0>>,
     <<<<>>, ArithExpr("Const", FOne, 0)>>,
     <<<<2>>, x1>>}

SumcheckArgs == {<<<<2>>, x0>>, <<<<1, 0>>, ArithExpr("Add", x1, x0)>>}

NameArgs == {"a", "b"}

InitBuilder ==
    /\ oracles \in BuilderOracleSets
    /\ last = NoCall
    /\ handed = [i \in 1..Len(oracles) |-> i - 1]
    /\ IdleChannel
    /\ IdleBalance
    /\ IdleVerify
    /\ IdleBuilder
    /\ IdleFlush
    /\ IdleSerial
    /\ IdleFunction

CanAddConstraint == built = NotRun /\ Len(builder) < MaxConstraints

AddZerocheck ==
    /\ CanAddConstraint
    /\ \E name \in NameArgs, c \in ConstraintArgs :
          builder' = add_zerocheck(builder, name, c[1], c[2])
    /\ UNCHANGED <<built, oracleVars, channelVars, balanceVars, verifyVars, flushVars, serialVars, functionVars>>

AddSumcheck ==
    /\ CanAddConstraint
    /\ \E c \in SumcheckArgs :
          builder' = add_sumcheck(builder, c[1], c[2], FOne)
    /\ UNCHANGED <<built, oracleVars, channelVars, balanceVars, verifyVars, flushVars, serialVars, functionVars>>

\* build and build_one consume the builder; the variable keeps what was built from.
Build ==
    /\ built = NotRun
    /\ built' = [op |-> "build"] @@ build(builder, oracles)
    /\ UNCHANGED <<builder, oracleVars, channelVars, balanceVars, verifyVars, flushVars, serialVars, functionVars>>

BuildOne ==
    /\ built = NotRun
    /\ built' = [op |-> "build_one"] @@ build_one(builder, oracles)
    /\ UNCHANGED <<builder, oracleVars, channelVars, balanceVars, verifyVars, flushVars, serialVars, functionVars>>

NextBuilder ==
    \/ AddZerocheck
    \/ AddSumcheck
    \/ Build
    \/ BuildOne

SpecBuilder == InitBuilder /\ [][NextBuilder]_vars

(***************************************************************************)
(* Properties of the built constraint sets.                                *)
(***************************************************************************)
StrictlyIncreasing(s) == \A i \in 1..(Len(s) - 1) : s[i] < s[i + 1]

\* C12: every ConstraintSet returned by build or build_one has oracle_ids
\* strictly increasing (sorted, no duplicates) and every listed oracle has the
\* set's n_vars, also when build joins several constraints into one group
\* through shared oracles or through Shifted and LinearCombination links.
C12_SortedHomogeneous ==
    built.tag = "Ok" =>
        \A g \in 1..Len(built.sets) :
            /\ StrictlyIncreasing(built.sets[g].oracle_ids)
            /\ \A id \in Range(built.sets[g].oracle_ids) :
                  /\ is_valid_oracle_id(oracles, id)
                  /\ n_vars(oracles, id) = built.sets[g].n_vars

\* build has joined three constraints into one set: two share an oracle that
\* one of them lists twice, the third is tied to them by a Shifted or
\* LinearCombination oracle only.
C12_Witness ==
    /\ built.tag = "Ok"
    /\ built.op = "build"
    /\ Len(builder) = 3
    /\ Len(built.sets) = 1
    /\ Len(built.sets[1].oracle_ids) = 3
    /\ \E k \in 1..3 : builder[k].oracle_ids = <<1, 2, 1>>
    /\ \E k \in 1..3 : builder[k].oracle_ids = <<2, 1>>
    /\ \E k \in 1..3 : builder[k].oracle_ids = <<0>>

\* The graph of the grouping: two oracles are joined when one constraint lists
\* both, or when one is a Shifted or LinearCombination oracle and the other one
\* of its inner oracles.
Joined(a, b) ==
    \/ \E k \in 1..Len(builder) : {a, b} \subseteq Range(builder[k].oracle_ids)
    \/ \E o \in Range(oracles) :
          /\ o.kind \in {"Shifted", "LinearCombination"}
          /\ {a, b} \subseteq {o.id} \cup Range(o.inner)

\* The oracles reachable from the oracles of S along joins.
RECURSIVE Component(_)
Component(S) ==
    LET next == S \cup {b \in 0..(Len(oracles) - 1) : \E a \in S : Joined(a, b)}
    IN  IF next = S THEN S ELSE Component(next)

\* The constraints of the builder carrying a name, and the places of the
\* result where a constraint of that name stands.
Named(name) == {k \in 1..Len(builder) : builder[k].name = name}

Placed(name) ==
    {<<g, k>> \in (1..Len(built.sets)) \X (1..MaxConstraints) :
        /\ k <= Len(built.sets[g].constraints)
        /\ built.sets[g].constraints[k].name = name}

BuilderNames == {builder[k].name : k \in 1..Len(builder)}

UniqueNames == \A name \in BuilderNames : Cardinality(Named(name)) = 1

\* The set of the result holding the one constraint of a name.
SetOf(name) == CHOOSE g \in 1..Len(built.sets) : \E p \in Placed(name) : p[1] = g

UsedNVars == {n_vars(oracles, builder[k].oracle_ids[1]) : k \in 1..Len(builder)}

SetsOfNVars(nv) == {g \in 1..Len(built.sets) : built.sets[g].n_vars = nv}

\* C22: build returns exactly one ConstraintSet for every distinct n_vars value
\* used by the added constraints.
C22_OneSetPerNVars ==
    (built.tag = "Ok" /\ built.op = "build") =>
        /\ \A nv \in UsedNVars : Cardinality(SetsOfNVars(nv)) = 1
        /\ \A g \in 1..Len(built.sets) : built.sets[g].n_vars \in UsedNVars

\* What build keeps of it: every used n_vars has at least one set, every set
\* has a used n_vars, and there is one set per connected component.
AtLeastOneSetPerNVars ==
    (built.tag = "Ok" /\ built.op = "build") =>
        /\ \A nv \in UsedNVars : Cardinality(SetsOfNVars(nv)) >= 1
        /\ \A g \in 1..Len(built.sets) : built.sets[g].n_vars \in UsedNVars
        /\ Len(built.sets)
              = Cardinality({Component(Range(builder[k].oracle_ids)) : k \in 1..Len(builder)})

\* The defect of the k-th added constraint, if it has one: no oracle, an
\* invalid handle, or valid oracles that do not all have the same n_vars.
Defect(k) ==
    LET ids == builder[k].oracle_ids
    IN  IF ids = <<>> THEN "Empty"
        ELSE IF \E i \in 1..Len(ids) : ~is_valid_oracle_id(oracles, ids[i]) THEN "Invalid"
        ELSE IF \E i, j \in 1..Len(ids) : n_vars(oracles, ids[i]) # n_vars(oracles, ids[j])
        THEN "Mixed"
        ELSE "None"

MixedConstraints == {k \in 1..Len(builder) : Defect(k) = "Mixed"}

NvarsMismatchReturned ==
    /\ built'.tag = "Err"
    /\ built'.err = "ConstraintSetNvarsMismatch"
    /\ built'.sets = <<>>

\* An add_zerocheck or add_sumcheck call appends the constraint as given,
\* whatever its oracle list, and changes neither the oracle set nor the result.
AddNeverFails ==
    builder' # builder =>
        /\ Len(builder') = Len(builder) + 1
        /\ SubSeq(builder', 1, Len(builder)) = builder
        /\ UNCHANGED <<oracles, built>>

\* C23 as stated: add_zerocheck and add_sumcheck never fail; whenever an added
\* constraint lists oracles that do not all have the same n_vars, build and
\* build_one both return ConstraintSetNvarsMismatch and no ConstraintSet.
C23_MismatchReportedAtBuild ==
    [][ /\ AddNeverFails
        /\ (built' # built /\ MixedConstraints # {}) => NvarsMismatchReturned ]_vars

\* C23 as the code has it: with such a constraint build and build_one return
\* an error and no ConstraintSet.  The error is ConstraintSetNvarsMismatch
\* from build when no constraint added before the first such one is empty or
\* lists an invalid handle, and from build_one when no constraint lists an
\* invalid handle; otherwise the other defect is the one reported.
MismatchReportedUnlessMasked ==
    [][ /\ AddNeverFails
        /\ (built' # built /\ MixedConstraints # {}) =>
              LET first == CHOOSE k \in MixedConstraints : \A m \in MixedConstraints : k <= m
                  masked == IF built'.op = "build"
                            THEN \E k \in 1..(first - 1) : Defect(k) \in {"Empty", "Invalid"}
                            ELSE \E k \in 1..Len(builder) : Defect(k) = "Invalid"
              IN  /\ built'.tag = "Err"
                  /\ built'.sets = <<>>
                  /\ masked <=> ~NvarsMismatchReturned
                  /\ masked => built'.err \in {"EmptyConstraintSet", "InvalidOracleId"} ]_vars

\* A zerocheck over oracles of one and of two variables was added after a
\* sound sumcheck without complaint, and the build reported the mismatch.
C23_Witness ==
    /\ Len(builder) = 2
    /\ builder[1].name = "sumcheck"
    /\ Defect(1) = "None"
    /\ Defect(2) = "Mixed"
    /\ built.tag = "Err"
    /\ built.err = "ConstraintSetNvarsMismatch"

EmptyConstraints == {k \in 1..Len(builder) : Defect(k) = "Empty"}

\* C38: a builder containing a constraint whose oracle list is empty is
\* rejected with EmptyConstraintSet by build and by build_one alike, also when
\* other constraints of the builder list oracles.
C38_EmptyConstraintRejected ==
    (built # NotRun /\ EmptyConstraints # {}) =>
        /\ built.tag = "Err"
        /\ built.err = "EmptyConstraintSet"

\* build_one looks at the oracle lists of all constraints put together: beside
\* a constraint that lists an oracle the empty one goes unnoticed and a
\* ConstraintSet comes back.
EmptyConstraintBuilt ==
    /\ built # NotRun
    /\ built.op = "build_one"
    /\ EmptyConstraints # {}
    /\ \A k \in 1..Len(builder) : Defect(k) \in {"Empty", "None"}
    /\ built.tag = "Ok"

\* build looks at one constraint after the other: an unknown oracle id in an
\* earlier constraint is reported instead of the empty list of a later one.
EmptyConstraintMasked ==
    /\ built # NotRun
    /\ built.op = "build"
    /\ EmptyConstraints # {}
    /\ built.tag = "Err"
    /\ built.err = "InvalidOracleId"

\* The composition as an expression over oracles: variable i stands for the
\* i-th oracle of the list the composition is indexed by.
RECURSIVE Resolve(_, _)
Resolve(expr, ids) ==
    CASE expr.kind = "Const" -> expr
      [] expr.kind = "Var" -> [kind |-> "Oracle", a |-> ids[expr.a + 1], b |-> 0]
      [] expr.kind \in {"Add", "Mul"} ->
            [kind |-> expr.kind, a |-> Resolve(expr.a, ids), b |-> Resolve(expr.b, ids)]
      [] expr.kind = "Pow" -> [kind |-> "Pow", a |-> Resolve(expr.a, ids), b |-> expr.b]

RECURSIVE VarsOf(_)
VarsOf(expr) ==
    CASE expr.kind = "Const" -> {}
      [] expr.kind = "Var" -> {expr.a}
      [] expr.kind \in {"Add", "Mul"} -> VarsOf(expr.a) \cup VarsOf(expr.b)
      [] expr.kind = "Pow" -> VarsOf(expr.a)

\* Every variable of every composition indexes the constraint's own oracle list.
WellFormed ==
    \A k \in 1..Len(builder) :
        \A i \in VarsOf(builder[k].composition) : i < Len(builder[k].oracle_ids)

AllOracleIds == UNION {Range(builder[k].oracle_ids) : k \in 1..Len(builder)}

ValidSameNVars ==
    /\ AllOracleIds # {}
    /\ \A id \in AllOracleIds : is_valid_oracle_id(oracles, id)
    /\ \A a, b \in AllOracleIds : n_vars(oracles, a) = n_vars(oracles, b)

\* Constraint `out` of a returned set over oracle_ids is constraint `c` of the
\* builder with its variables moved to the positions of c's oracles.
RemappedFrom(out, oracle_ids, c) ==
    /\ out.name = c.name
    /\ out.predicate = c.predicate
    /\ VarsOf(out.composition) \subseteq 0..(Len(oracle_ids) - 1)
    /\ Resolve(out.composition, oracle_ids) = Resolve(c.composition, c.oracle_ids)

\* C14: for constraints whose oracles are all valid and share one n_vars,
\* build_one returns one ConstraintSet whose oracle_ids is the sorted
\* duplicate-free union of the constraints' oracle lists, and every variable
\* index i of a composition is replaced by the position in oracle_ids of the
\* i-th oracle of the constraint's own list, name and predicate unchanged;
\* build remaps the same way inside each group.
C14_Remapped ==
    /\ (built.tag # "none" /\ built.op = "build_one" /\ ValidSameNVars /\ WellFormed) =>
          /\ built.tag = "Ok"
          /\ Len(built.sets) = 1
          /\ StrictlyIncreasing(built.sets[1].oracle_ids)
          /\ Range(built.sets[1].oracle_ids) = AllOracleIds
          /\ Len(built.sets[1].constraints) = Len(builder)
          /\ \A k \in 1..Len(builder) :
                RemappedFrom(built.sets[1].constraints[k], built.sets[1].oracle_ids, builder[k])
    /\ (built.tag = "Ok" /\ built.op = "build" /\ UniqueNames) =>
          /\ \A g \in 1..Len(built.sets) :
                /\ StrictlyIncreasing(built.sets[g].oracle_ids)
                /\ Range(built.sets[g].oracle_ids) =
                      UNION {Range(builder[i].oracle_ids) :
                                i \in {j \in 1..Len(builder) : SetOf(builder[j].name) = g}}
          /\ \A i \in 1..Len(builder) :
                \A p \in Placed(builder[i].name) :
                    RemappedFrom(built.sets[p[1]].constraints[p[2]],
                                 built.sets[p[1]].oracle_ids, builder[i])

\* build_one has returned a set in which a composition's variables moved: the
\* constraint lists its oracles in another order than oracle_ids has them, and
\* another constraint brought an oracle the first does not list.
C14_Witness ==
    /\ built.tag = "Ok"
    /\ built.op = "build_one"
    /\ Len(builder) >= 2
    /\ \E k \in 1..Len(builder) :
          /\ builder[k].oracle_ids = <<2, 1>>
          /\ built.sets[1].oracle_ids = <<0, 1, 2>>
          /\ built.sets[1].constraints[k].composition # builder[k].composition

(***************************************************************************)
(* The exact check against the randomized check.                           *)
(***************************************************************************)
\* The flushes as verify_with_pcs hands them on: stably sorted by channel id.
FlushesByChannel(a) ==
    sort_by_key(a.flushes, [j \in 1..Len(a.flushes) |-> a.flushes[j].channel_id])

\* The true product of a flush: the mixed values of its rows 0..count-1 multiplied.
TrueProduct(a, fl, mixing_challenge, permutation_challenges) ==
    ProdSeq([i \in 1..fl.count |->
               Mixed([mixing_challenge |-> mixing_challenge,
                      permutation_challenges |-> permutation_challenges],
                     [values |-> FlushRows(a, fl)[i], channel_id |-> fl.channel_id])])

\* verify_channels_balance on the arguments of validate_witness, every flush
\* with its true product, accepts.
BalanceAccepts(a, mixing_challenge, permutation_challenges) ==
    LET flushes == FlushesByChannel(a)
    IN  verify_channels_balance(
            flushes,
            [j \in 1..Len(flushes) |->
                TrueProduct(a, flushes[j], mixing_challenge, permutation_challenges)],
            a.boundaries, mixing_challenge, permutation_challenges) = VwOk

\* C15: whenever validate_witness accepts a witness, verify_channels_balance
\* accepts for every value of the mixing challenge and of the permutation
\* challenges when it is given, for each flush, the true product of the mixed
\* values of that flush's first count rows.
C15_ExactImpliesRandomized ==
    vw_out = VwOk =>
        \A mixing_challenge \in F, permutation_challenges \in [1..(MaxChannelId + 1) -> F] :
            BalanceAccepts(vw_in, mixing_challenge, permutation_challenges)

\* The same statement for calls in which every flush has multiplicity 1 and no
\* multiplicity or total leaves the i64 range.
ExactImpliesRandomizedUnitFlushes ==
    (/\ vw_out = VwOk
     /\ WithinI64(vw_in)
     /\ \A j \in 1..Len(vw_in.flushes) : vw_in.flushes[j].multiplicity = 1)
        => \A mixing_challenge \in F, permutation_challenges \in [1..(MaxChannelId + 1) -> F] :
              BalanceAccepts(vw_in, mixing_challenge, permutation_challenges)

\* The outcome of verify_channels_balance on the arguments of validate_witness
\* when the product claimed for flush j is products[j].
BalanceOutcome(a, products, mixing_challenge, permutation_challenges) ==
    verify_channels_balance(FlushesByChannel(a), products, a.boundaries, mixing_challenge,
                            permutation_challenges)

TrueProducts(a, mixing_challenge, permutation_challenges) ==
    [j \in 1..Len(a.flushes) |->
        TrueProduct(a, FlushesByChannel(a)[j], mixing_challenge, permutation_challenges)]

\* Every product raised to the multiplicity of its flush.
Weighted(a, products) ==
    [j \in 1..Len(products) |-> pow_vartime(products[j], FlushesByChannel(a)[j].multiplicity)]

\* C31: in verify_channels_balance a flush with multiplicity m contributes its
\* claimed grand product raised to the power m to the pull or push product of
\* its channel, the weight validate_witness gives each row of the flush: the
\* outcome is the one the products raised to the multiplicities give.
C31_FlushProductWeighted ==
    (vw_out # NotRun /\ Structural(vw_in)) =>
        \A mixing_challenge \in F, permutation_challenges \in [1..(MaxChannelId + 1) -> F] :
            BalanceOutcome(vw_in, TrueProducts(vw_in, mixing_challenge, permutation_challenges),
                           mixing_challenge, permutation_challenges)
            = BalanceOutcome(vw_in,
                             Weighted(vw_in, TrueProducts(vw_in, mixing_challenge,
                                                          permutation_challenges)),
                             mixing_challenge, permutation_challenges)

\* A flush pulled with multiplicity 2 and pushed twice with multiplicity 1:
\* validate_witness accepts and verify_channels_balance does not.
WeightIgnored ==
    /\ vw_out = VwOk
    /\ vw_in.boundaries = <<>>
    /\ vw_in.flushes = <<Flush(<<0>>, 0, "Pull", 1, 2), Flush(<<0>>, 0, "Push", 1, 1),
                         Flush(<<0>>, 0, "Push", 1, 1)>>
    /\ BalanceOutcome(vw_in, TrueProducts(vw_in, 2, <<2, 0>>), 2, <<2, 0>>)
          = VwErr("ChannelUnbalanced", 0)

(***************************************************************************)
(* SpecFlush: one Channel under the calls of flush that one run of         *)
(* validate_witness makes on it.  chan_out keeps the calls made so far (as *)
(* boundaries of channel 0), the channel before the last call and the      *)
(* call's result; a failed call ends the run.                              *)
(***************************************************************************)
\* Bound on the number of calls of flush on the channel.
MaxFlushes == 3

\* Multiplicities: 1, i64::MAX and u64::MAX.
MultiplicityArgs == {1, I64Max, MaxMult}

\* Tuples: rows of columns 0 and 1 of WitnessArg, and the row of both columns.
ValuesOfFlush == {<<1>>, <<2>>, <<1, 2>>}

InitFlush ==
    /\ IdleOracle
    /\ IdleChannel
    /\ IdleBalance
    /\ IdleVerify
    /\ IdleBuilder
    /\ IdleSerial
    /\ IdleFunction
    /\ chan = new_channel
    /\ \E overflow_checks \in BOOLEAN :
          chan_out = [tag |-> "new", err |-> "", calls |-> <<>>, before |-> new_channel,
                      overflow_checks |-> overflow_checks]

\* One call of flush on the channel, as validate_witness makes it for a
\* boundary or for a row of a flush.
CallFlush ==
    /\ chan_out.tag \in {"new", "Ok"}
    /\ Len(chan_out.calls) < MaxFlushes
    /\ \E direction \in FlushDirection, multiplicity \in MultiplicityArgs,
          values \in ValuesOfFlush :
          LET r == flush(chan, direction, multiplicity, values, chan_out.overflow_checks)
          IN  /\ chan' = r.channel
              /\ chan_out' =
                    [chan_out EXCEPT
                        !.tag = r.tag, !.err = r.err, !.before = chan,
                        !.calls = Append(chan_out.calls,
                                         Boundary(values, 0, direction, multiplicity))]
    /\ UNCHANGED <<oracleVars, channelVars, balanceVars, verifyVars, builderVars, serialVars, functionVars>>

NextFlush == CallFlush

SpecFlush == InitFlush /\ [][NextFlush]_vars

\* The last call of flush, and a tuple's running net multiplicity.
LastCall == chan_out.calls[Len(chan_out.calls)]

Net(ch, values) ==
    IF values \in DOMAIN ch.multiplicities THEN ch.multiplicities[values] ELSE 0

WidthFits(ch, values) == ch.width = <<>> \/ ch.width[1] = Len(values)

\* C16: flush changes the flushed tuple's running net multiplicity by exactly
\* +multiplicity for a push and -multiplicity for a pull, for every unsigned
\* 64-bit multiplicity: a push is never counted as a pull, and the signed
\* running total never wraps around or aborts.
C16_ExactNetChange ==
    (chan_out.tag # "new" /\ WidthFits(chan_out.before, LastCall.values)) =>
        /\ chan_out.tag = "Ok"
        /\ Net(chan, LastCall.values)
              = Net(chan_out.before, LastCall.values)
                + (IF LastCall.direction = "Push" THEN 1 ELSE -1) * LastCall.multiplicity

\* The same statement for the calls whose multiplicity is below 2^63 and whose
\* exact new total is within the i64 range.
ExactNetChangeWithinI64 ==
    (/\ chan_out.tag # "new"
     /\ WidthFits(chan_out.before, LastCall.values)
     /\ LastCall.multiplicity <= I64Max
     /\ InI64(Net(chan_out.before, LastCall.values)
              + (IF LastCall.direction = "Push" THEN 1 ELSE -1) * LastCall.multiplicity))
        => /\ chan_out.tag = "Ok"
           /\ Net(chan, LastCall.values)
                 = Net(chan_out.before, LastCall.values)
                   + (IF LastCall.direction = "Push" THEN 1 ELSE -1) * LastCall.multiplicity

\* The flush whose row 0 is the tuple: columns 0 and 1 of WitnessArg hold 1 and 2 there.
FlushOfTuple(b) ==
    Flush([k \in 1..Len(b.values) |-> b.values[k] - 1], b.channel_id, b.direction, 1,
          b.multiplicity)

\* validate_witness on the calls made so far, all as boundaries, and with the
\* last call as a row of a flush.
RunAsBoundaries ==
    validate_witness(WitnessArg, <<>>, chan_out.calls, 0, chan_out.overflow_checks)

RunLastAsFlushRow ==
    validate_witness(WitnessArg, <<FlushOfTuple(LastCall)>>,
                     SubSeq(chan_out.calls, 1, Len(chan_out.calls) - 1), 0,
                     chan_out.overflow_checks)

WidthMismatch == VwErr("ChannelFlushWidthMismatch", 0)

\* C17: within one run of validate_witness the first tuple flushed into a
\* channel fixes the channel's width; a later tuple of another length makes
\* validate_witness return ChannelFlushWidthMismatch, and the failing flush
\* changes neither the channel's width nor any tuple's net multiplicity.
C17_WidthFixedByFirst ==
    chan_out.tag # "new" =>
        /\ chan.width \in {<<>>, <<Len(chan_out.calls[1].values)>>}
        /\ chan_out.tag = "Ok" => chan.width = <<Len(chan_out.calls[1].values)>>
        /\ IF Len(LastCall.values) # Len(chan_out.calls[1].values)
           THEN /\ chan_out.tag = "Err"
                /\ chan_out.err = "ChannelFlushWidthMismatch"
                /\ chan = chan_out.before
                /\ RunAsBoundaries = WidthMismatch
                /\ RunLastAsFlushRow = WidthMismatch
           ELSE /\ chan_out.tag # "Err"
                /\ RunAsBoundaries # WidthMismatch
                /\ RunLastAsFlushRow # WidthMismatch

\* A third tuple of another length than the first two is refused; the channel
\* holds a tuple with a net multiplicity other than zero.
C17_Witness ==
    /\ Len(chan_out.calls) = 3
    /\ chan_out.tag = "Err"
    /\ Len(chan_out.calls[1].values) = 1
    /\ Len(LastCall.values) = 2
    /\ \E t \in DOMAIN chan.multiplicities : chan.multiplicities[t] # 0

(***************************************************************************)
(* The rows a flush engages.                                               *)
(***************************************************************************)
\* The overflow behaviour of the build in which the call of vw_out ran does
\* not show in the state: a statement about vw_out is made for both.
OutcomeOf(witness, flushes, boundaries) ==
    {validate_witness(witness, flushes, boundaries, vw_in.max_channel_id, overflow_checks) :
        overflow_checks \in BOOLEAN}

\* The rows 0..count-1 of the flushes as boundaries, in the order of the
\* flushes and of the rows, each with its flush's channel, direction and
\* multiplicity.
RECURSIVE RowsAsBoundaries(_, _)
RowsAsBoundaries(a, j) ==
    IF j > Len(a.flushes) THEN <<>>
    ELSE LET fl == a.flushes[j]
         IN  [i \in 1..fl.count |->
                Boundary(FlushRows(a, fl)[i], fl.channel_id, fl.direction, fl.multiplicity)]
             \o RowsAsBoundaries(a, j + 1)

ColumnSize(a, fl) == 2 ^ a.witness[fl.oracles[1]].n_vars

\* The first flush, in order, whose count exceeds the size of its columns (0: none).
FirstExceeding(a) ==
    IF \A j \in 1..Len(a.flushes) : a.flushes[j].count <= ColumnSize(a, a.flushes[j])
    THEN 0
    ELSE CHOOSE j \in 1..Len(a.flushes) :
            /\ a.flushes[j].count > ColumnSize(a, a.flushes[j])
            /\ \A k \in 1..(j - 1) : a.flushes[k].count <= ColumnSize(a, a.flushes[k])

\* C19: validate_witness returns FlushCountExceedsOracleSize when a flush has
\* count > 2^n_vars, and otherwise flushes exactly the rows at hypercube
\* indices 0..count-1, each with the flush's multiplicity (count = 2^n_vars is
\* accepted, count = 0 flushes nothing).
C19_RowsBelowCount ==
    vw_out # NotRun =>
        LET j == FirstExceeding(vw_in)
            before == [vw_in EXCEPT !.flushes = SubSeq(vw_in.flushes, 1, j - 1)]
        IN  IF j = 0
            THEN vw_out \in OutcomeOf(vw_in.witness, <<>>,
                                      vw_in.boundaries \o RowsAsBoundaries(vw_in, 1))
            ELSE LET reached == OutcomeOf(vw_in.witness, <<>>,
                                          vw_in.boundaries \o RowsAsBoundaries(before, 1))
                 IN  \/ /\ vw_out = VwErr("FlushCountExceedsOracleSize",
                                          vw_in.flushes[j].oracles[1])
                        /\ \E r \in reached : r.err \in {"", "ChannelUnbalanced"}
                     \/ /\ vw_out \in reached
                        /\ vw_out.err \notin {"", "ChannelUnbalanced"}

\* Two flushes of all 2^n_vars rows of their columns, one pushing and one
\* pulling, and a flush of no row have been accepted.
C19_Witness ==
    /\ vw_out = VwOk
    /\ Len(vw_in.flushes) = 3
    /\ \E j \in 1..3 : vw_in.flushes[j].count = 0
    /\ \E j, k \in 1..3 :
          /\ vw_in.flushes[j].count = 2 /\ vw_in.flushes[j].direction = "Push"
          /\ vw_in.flushes[k].count = 2 /\ vw_in.flushes[k].direction = "Pull"

(***************************************************************************)
(* The order of the tuples of a channel.                                   *)
(***************************************************************************)
\* Every tuple the call flushes, boundaries first, then the rows of the flushes.
TupleEvents(a) == a.boundaries \o RowsAsBoundaries(a, 1)

\* The builds whose call of validate_witness gives the result in vw_out.
BuildsOf(a, out) ==
    {overflow_checks \in BOOLEAN :
        validate_witness(a.witness, a.flushes, a.boundaries, a.max_channel_id,
                         overflow_checks) = out}

\* In every order of the flushed tuples, the build gives the result `out`.
SameInEveryOrder(a, out, overflow_checks) ==
    LET events == TupleEvents(a)
    IN  \A p \in Permutations(1..Len(events)) :
            validate_witness(a.witness, <<>>, [i \in 1..Len(events) |-> events[p[i]]],
                             a.max_channel_id, overflow_checks) = out

\* C18: a channel is unordered: the outcome of validate_witness (Ok or
\* ChannelUnbalanced) does not depend on the order of the flushes or of the
\* boundaries, nor on the row at which a tuple is pushed or pulled; only the
\* per-tuple counts matter, each row's column values kept together in column
\* order.
C18_Unordered ==
    (vw_out # NotRun /\ vw_out.err \in {"", "ChannelUnbalanced"}) =>
        \A overflow_checks \in BuildsOf(vw_in, vw_out) :
            SameInEveryOrder(vw_in, vw_out, overflow_checks)

\* The same statement for calls whose multiplicities and per-tuple totals stay
\* within the i64 range.
UnorderedWithinI64 ==
    (vw_out # NotRun /\ vw_out.err \in {"", "ChannelUnbalanced"} /\ WithinI64(vw_in)) =>
        \A overflow_checks \in BuildsOf(vw_in, vw_out) :
            SameInEveryOrder(vw_in, vw_out, overflow_checks)

\* The same statement for a build without overflow checks.
UnorderedWhenWrapping ==
    (vw_out # NotRun /\ vw_out.err \in {"", "ChannelUnbalanced"}
     /\ FALSE \in BuildsOf(vw_in, vw_out)) => SameInEveryOrder(vw_in, vw_out, FALSE)

(***************************************************************************)
(* Serialization: write and read of Flush, Proof and ConstraintSystem.     *)
(*                                                                         *)
(* A byte holds ByteBits bits, so that a u32 (4 bytes) ranges over         *)
(* 0..2^(4*ByteBits)-1 and a u64 or usize (8 bytes) over                   *)
(* 0..2^(8*ByteBits)-1; `v as u32` keeps the 4 low bytes of v.             *)
(***************************************************************************)
ByteBits == 2

U32Modulus == 2 ^ (4 * ByteBits)

\* <int>::to_le_bytes for an integer type of n bytes; applied to `v as u32`
\* with n = 4 it drops the bytes of v above the fourth.
RECURSIVE to_le_bytes(_, _)
to_le_bytes(v, n) ==
    IF n = 0 THEN <<>> ELSE <<v % (2 ^ ByteBits)>> \o to_le_bytes(v \div (2 ^ ByteBits), n - 1)

\* <int>::from_le_bytes
RECURSIVE from_le_bytes(_)
from_le_bytes(bytes) ==
    IF bytes = <<>> THEN 0 ELSE Head(bytes) + (2 ^ ByteBits) * from_le_bytes(Tail(bytes))

\* The bytes a sequence of writes leaves in the writer.
RECURSIVE write_all(_)
write_all(chunks) == IF chunks = <<>> THEN <<>> ELSE Head(chunks) \o write_all(Tail(chunks))

\* Results of reading from a byte slice: the value and the unread bytes, an
\* io::Error (read_exact on too few bytes) or a panic.
IoOk(val, rest) == [tag |-> "Ok", err |-> "", val |-> val, rest |-> rest]

IoErr == [tag |-> "Err", err |-> "UnexpectedEof", val |-> 0, rest |-> <<>>]

IoPanic(msg) == [tag |-> "Panic", err |-> msg, val |-> 0, rest |-> <<>>]

\* Read::read_exact into a buffer of n bytes, for a reader over a byte slice.
read_exact(bytes, n) ==
    IF Len(bytes) < n THEN IoErr
    ELSE IoOk(SubSeq(bytes, 1, n), SubSeq(bytes, n + 1, Len(bytes)))

\* The `?` operator: the first failure ends the function, a success goes on
\* to the rest of it.
Try(r, rest_of_function(_)) == IF r.tag # "Ok" THEN r ELSE rest_of_function(r)

\* read_exact into [0u8; n] followed by from_le_bytes.
read_int(bytes, n) ==
    Try(read_exact(bytes, n), LAMBDA r : IoOk(from_le_bytes(r.val), r.rest))

\* The loops `for _ in 0..len { read a u32 id; push }` of Flush::read,
\* ConstraintSet::read and ConstraintSystem::read.
RECURSIVE read_ids(_, _)
read_ids(bytes, len) ==
    IF len = 0 THEN IoOk(<<>>, bytes)
    ELSE Try(read_int(bytes, 4), LAMBDA id :
         Try(read_ids(id.rest, len - 1), LAMBDA more :
         IoOk(<<id.val>> \o more.val, more.rest)))

\* A value checked after it was read: a panic when it is not in `allowed`.
Among(r, allowed, msg) == IF r.tag = "Ok" /\ r.val \notin allowed THEN IoPanic(msg) ELSE r

\* The loops `write the length as u32; for each id write (id as u32)`.
write_ids(ids) ==
    to_le_bytes(Len(ids), 4) \o write_all([i \in 1..Len(ids) |-> to_le_bytes(ids[i], 4)])

\* Flush::write
Flush_write(f) ==
    write_all(<<write_ids(f.oracles),
                to_le_bytes(f.channel_id, 4),
                to_le_bytes(IF f.direction = "Push" THEN 1 ELSE 2, 4),
                to_le_bytes(f.count, 4),
                to_le_bytes(f.multiplicity, 8)>>)

\* A plausible slip: the multiplicity is read as a u32.
Flush_read_ShortMultiplicity(bytes) ==
    Try(read_int(bytes, 4), LAMBDA oracles_len :
    Try(read_ids(oracles_len.rest, oracles_len.val), LAMBDA oracle_ids :
    Try(read_int(oracle_ids.rest, 4), LAMBDA channel_id :
    Try(Among(read_int(channel_id.rest, 4), {1, 2}, "unreachable"), LAMBDA direction :
    Try(read_int(direction.rest, 4), LAMBDA count :
    Try(read_int(count.rest, 4), LAMBDA multiplicity :
    IoOk(Flush(oracle_ids.val, channel_id.val, IF direction.val = 1 THEN "Push" ELSE "Pull",
               count.val, multiplicity.val),
         multiplicity.rest)))))))

\* Flush::read
Flush_read(bytes) ==
    Try(read_int(bytes, 4), LAMBDA oracles_len :
    Try(read_ids(oracles_len.rest, oracles_len.val), LAMBDA oracle_ids :
    Try(read_int(oracle_ids.rest, 4), LAMBDA channel_id :
    Try(Among(read_int(channel_id.rest, 4), {1, 2}, "unreachable"), LAMBDA direction :
    Try(read_int(direction.rest, 4), LAMBDA count :
    Try(read_int(count.rest, 8), LAMBDA multiplicity :
    IoOk(Flush(oracle_ids.val, channel_id.val, IF direction.val = 1 THEN "Push" ELSE "Pull",
               count.val, multiplicity.val),
         multiplicity.rest)))))))

\* The outcome of a write: the bytes in the writer, or a panic.
Written(bytes) == [tag |-> "Ok", err |-> "", bytes |-> bytes]

WritePanic(msg) == [tag |-> "Panic", err |-> msg, bytes |-> <<>>]

\* Proof::write; a Proof is its transcript bytes and its advice bytes.
Proof_write(proof) ==
    IF ~(Len(proof.transcript) < U32Modulus - 1) THEN WritePanic("too long transcript")
    ELSE IF ~(Len(proof.advice) < U32Modulus - 1) THEN WritePanic("too long advice")
    ELSE Written(write_all(<<to_le_bytes(Len(proof.transcript), 4), proof.transcript,
                             to_le_bytes(Len(proof.advice), 4), proof.advice>>))

\* A plausible slip: the advice is read with the transcript's length.
Proof_read_OneLength(bytes) ==
    Try(read_int(bytes, 4), LAMBDA transcript_len :
    Try(read_exact(transcript_len.rest, transcript_len.val), LAMBDA transcript :
    Try(read_int(transcript.rest, 4), LAMBDA advice_len :
    Try(read_exact(advice_len.rest, transcript_len.val), LAMBDA advice :
    IoOk([transcript |-> transcript.val, advice |-> advice.val], advice.rest)))))

\* Proof::read
Proof_read(bytes) ==
    Try(read_int(bytes, 4), LAMBDA transcript_len :
    Try(read_exact(transcript_len.rest, transcript_len.val), LAMBDA transcript :
    Try(read_int(transcript.rest, 4), LAMBDA advice_len :
    Try(read_exact(advice_len.rest, advice_len.val), LAMBDA advice :
    IoOk([transcript |-> transcript.val, advice |-> advice.val], advice.rest)))))

\* The serialized length of a field element: 2^TOWER_LEVEL bits.
FieldBytes == 2 ^ (TOWER_LEVEL - 3)

\* SerializeBytes::serialize of a field element (little-endian).
serialize(x) == to_le_bytes(x, FieldBytes)

\* DeserializeBytes::deserialize followed by unwrap, on a buffer: a panic when the
\* buffer is shorter than a field element.
deserialize(buffer) ==
    IF Len(buffer) < FieldBytes THEN IoPanic("unwrap on Err")
    ELSE IoOk(from_le_bytes(SubSeq(buffer, 1, FieldBytes)),
              SubSeq(buffer, FieldBytes + 1, Len(buffer)))

\* `write buffer.len() as usize, then the buffer` of a serialized field element.
write_field(x) == to_le_bytes(FieldBytes, 8) \o serialize(x)

\* `read a u32 length, a buffer of that length, deserialize the buffer and unwrap`.
read_field(bytes) ==
    Try(read_int(bytes, 4), LAMBDA len :
    Try(read_exact(len.rest, len.val), LAMBDA buffer :
    Try(deserialize(buffer.val), LAMBDA field :
    IoOk(field.val, buffer.rest))))

\* ArithExpr::write
RECURSIVE ArithExpr_write(_)
ArithExpr_write(expr) ==
    LET prefixed(tag, buffer) == to_le_bytes(tag, 4) \o to_le_bytes(Len(buffer), 4) \o buffer
    IN  CASE expr.kind = "Const" -> to_le_bytes(1, 4) \o write_field(expr.a)
          [] expr.kind = "Var" -> to_le_bytes(2, 4) \o to_le_bytes(expr.a, 4)
          [] expr.kind = "Add" -> prefixed(3, ArithExpr_write(expr.a) \o ArithExpr_write(expr.b))
          [] expr.kind = "Mul" -> prefixed(4, ArithExpr_write(expr.a) \o ArithExpr_write(expr.b))
          [] expr.kind = "Pow" -> prefixed(5, ArithExpr_write(expr.a) \o to_le_bytes(expr.b, 8))

\* ArithExpr::read.  Add and Mul read both operands from the start of one
\* buffer (buffer.as_slice() twice); Pow reads its exponent from the reader,
\* after the buffer.
RECURSIVE ArithExpr_read(_)
ArithExpr_read(bytes) ==
    Try(Among(read_int(bytes, 4), 1..5, "ArithExpr read unreachable"), LAMBDA value :
    CASE value.val = 1 ->
            Try(read_field(value.rest), LAMBDA field :
            IoOk(ArithExpr("Const", field.val, 0), field.rest))
      [] value.val = 2 ->
            Try(read_int(value.rest, 4), LAMBDA variable :
            IoOk(ArithExpr("Var", variable.val, 0), variable.rest))
      [] value.val \in {3, 4} ->
            Try(read_int(value.rest, 4), LAMBDA len :
            Try(read_exact(len.rest, len.val), LAMBDA buffer :
            Try(ArithExpr_read(buffer.val), LAMBDA left :
            Try(ArithExpr_read(buffer.val), LAMBDA right :
            IoOk(ArithExpr(IF value.val = 3 THEN "Add" ELSE "Mul", left.val, right.val),
                 buffer.rest)))))
      [] value.val = 5 ->
            Try(read_int(value.rest, 4), LAMBDA len :
            Try(read_exact(len.rest, len.val), LAMBDA buffer :
            Try(ArithExpr_read(buffer.val), LAMBDA power :
            Try(read_int(buffer.rest, 8), LAMBDA exponent :
            IoOk(ArithExpr("Pow", power.val, exponent.val), exponent.rest))))))

\* MultilinearPolyOracle::write of oracle `id` of the set, with Projected::write,
\* Shifted::write, Packed::write and LinearCombination::write.  An inner oracle
\* is written in full.  Oracles are unnamed (write_name writes 0u32).
RECURSIVE MultilinearPolyOracle_write(_, _)
MultilinearPolyOracle_write(set, id) ==
    LET o == oracle(set, id)
        write_name == to_le_bytes(0, 4)
        inners == [k \in 1..Len(o.inner) |-> MultilinearPolyOracle_write(set, o.inner[k])]
        buffer == inners[1].bytes
        shift_variant == CASE o.variant = "CircularLeft" -> 1
                           [] o.variant = "LogicalLeft" -> 2
                           [] o.variant = "LogicalRight" -> 3
        bytes ==
            CASE o.kind = "Committed" ->
                    write_all(<<to_le_bytes(2, 4), to_le_bytes(o.id, 4), to_le_bytes(o.n_vars, 4),
                                to_le_bytes(o.tower_level, 4), write_name>>)
              [] o.kind = "Repeating" ->
                    write_all(<<to_le_bytes(3, 4), to_le_bytes(o.id, 4),
                                to_le_bytes(Len(buffer), 4), buffer,
                                to_le_bytes(o.log, 4), write_name>>)
              [] o.kind = "Projected" ->
                    write_all(<<to_le_bytes(4, 4), to_le_bytes(o.id, 8), buffer,
                                to_le_bytes(Len(o.values), 8),
                                write_all([k \in 1..Len(o.values) |-> write_field(o.values[k])]),
                                to_le_bytes(IF o.variant = "FirstVars" THEN 1 ELSE 2, 4),
                                write_name>>)
              [] o.kind = "Shifted" ->
                    write_all(<<to_le_bytes(5, 4), to_le_bytes(o.id, 8), buffer,
                                to_le_bytes(o.shift_offset, 4), to_le_bytes(o.block_size, 4),
                                to_le_bytes(shift_variant, 4), write_name>>)
              [] o.kind = "Packed" ->
                    write_all(<<to_le_bytes(6, 4), to_le_bytes(o.id, 8), buffer,
                                to_le_bytes(o.log, 8), write_name>>)
              [] o.kind = "LinearCombination" ->
                    write_all(<<to_le_bytes(7, 4), to_le_bytes(o.id, 8), to_le_bytes(o.n_vars, 8),
                                write_field(o.offset), to_le_bytes(Len(o.inner), 4),
                                write_all([k \in 1..Len(o.inner) |->
                                             inners[k].bytes \o write_field(o.coeffs[k])]),
                                write_name>>)
              [] o.kind = "ZeroPadded" ->
                    write_all(<<to_le_bytes(8, 4), to_le_bytes(o.id, 8), buffer,
                                to_le_bytes(o.n_vars, 8), write_name>>)
    IN  IF o.kind = "Transparent" THEN WritePanic("not yet implemented")
        ELSE IF \E k \in 1..Len(inners) : inners[k].tag = "Panic"
        THEN WritePanic("not yet implemented")
        ELSE Written(bytes)

\* The oracle MultilinearPolyOracle::read returns: the descriptor with its inner
\* oracles in full and its name (<<>> for None, <<bytes>> for Some).
ReadOracle(descriptor, inner, name) ==
    [name |-> name] @@ [descriptor EXCEPT !.inner = inner]

\* MultilinearPolyOracle::read, with read_name, Projected::read, Shifted::read,
\* Packed::read and LinearCombination::read.
RECURSIVE MultilinearPolyOracle_read(_)
MultilinearPolyOracle_read(bytes) ==
    LET read_name(b) ==
            Try(read_int(b, 4), LAMBDA flag :
            IF flag.val = 1
            THEN Try(read_int(flag.rest, 4), LAMBDA len :
                 Try(read_exact(len.rest, len.val), LAMBDA buffer :
                 IoOk(<<buffer.val>>, buffer.rest)))
            ELSE IoOk(<<>>, flag.rest))
        RECURSIVE read_values(_, _)
        read_values(b, n) ==
            IF n = 0 THEN IoOk(<<>>, b)
            ELSE Try(read_field(b), LAMBDA val :
                 Try(read_values(val.rest, n - 1), LAMBDA more :
                 IoOk(<<val.val>> \o more.val, more.rest)))
        RECURSIVE read_terms(_, _)
        read_terms(b, n) ==
            IF n = 0 THEN IoOk(<<>>, b)
            ELSE Try(MultilinearPolyOracle_read(b), LAMBDA poly_oracle :
                 Try(read_field(poly_oracle.rest), LAMBDA field :
                 Try(read_terms(field.rest, n - 1), LAMBDA more :
                 IoOk(<<<<poly_oracle.val, field.val>>>> \o more.val, more.rest))))
        Projected_read(b) ==
            Try(MultilinearPolyOracle_read(b), LAMBDA inner :
            Try(read_int(inner.rest, 4), LAMBDA len :
            Try(read_values(len.rest, len.val), LAMBDA values :
            Try(Among(read_int(values.rest, 4), {1, 2}, "Projected read unreachable"),
                LAMBDA value :
            IoOk([BlankOracle EXCEPT !.kind = "Projected", !.inner = <<inner.val>>,
                                     !.values = values.val,
                                     !.variant = IF value.val = 1 THEN "FirstVars"
                                                 ELSE "LastVars"],
                 value.rest)))))
        Shifted_read(b) ==
            Try(MultilinearPolyOracle_read(b), LAMBDA inner :
            Try(read_int(inner.rest, 4), LAMBDA shift_offset :
            Try(read_int(shift_offset.rest, 4), LAMBDA block_size :
            Try(Among(read_int(block_size.rest, 4), 1..3, "Shifted read unreachable"),
                LAMBDA shift_variant :
            IoOk([BlankOracle EXCEPT !.kind = "Shifted", !.inner = <<inner.val>>,
                                     !.shift_offset = shift_offset.val,
                                     !.block_size = block_size.val,
                                     !.variant = CASE shift_variant.val = 1 -> "CircularLeft"
                                                   [] shift_variant.val = 2 -> "LogicalLeft"
                                                   [] shift_variant.val = 3 -> "LogicalRight"],
                 shift_variant.rest)))))
        Packed_read(b) ==
            Try(MultilinearPolyOracle_read(b), LAMBDA inner :
            Try(read_int(inner.rest, 4), LAMBDA log_degree :
            IoOk([BlankOracle EXCEPT !.kind = "Packed", !.inner = <<inner.val>>,
                                     !.log = log_degree.val],
                 log_degree.rest)))
        LinearCombination_read(b) ==
            Try(read_int(b, 4), LAMBDA nv :
            Try(read_field(nv.rest), LAMBDA offset :
            Try(read_int(offset.rest, 4), LAMBDA inner_len :
            Try(read_terms(inner_len.rest, inner_len.val), LAMBDA inner :
            IoOk([BlankOracle EXCEPT !.kind = "LinearCombination", !.n_vars = nv.val,
                                     !.offset = offset.val,
                                     !.inner = [k \in 1..Len(inner.val) |-> inner.val[k][1]],
                                     !.coeffs = [k \in 1..Len(inner.val) |-> inner.val[k][2]]],
                 inner.rest)))))
        Inner_read(b, kind) ==
            CASE kind = 4 -> Projected_read(b)
              [] kind = 5 -> Shifted_read(b)
              [] kind = 6 -> Packed_read(b)
              [] kind = 7 -> LinearCombination_read(b)
    IN  Try(Among(read_int(bytes, 4), 1..8, "MultilinearPolyOracle read unreachable"),
            LAMBDA identifier :
        CASE identifier.val = 1 -> IoPanic("not yet implemented")
          [] identifier.val = 2 ->
                Try(read_int(identifier.rest, 4), LAMBDA oracle_id :
                Try(read_int(oracle_id.rest, 4), LAMBDA nv :
                Try(read_int(nv.rest, 4), LAMBDA tower_level :
                Try(read_name(tower_level.rest), LAMBDA name :
                IoOk(ReadOracle([BlankOracle EXCEPT !.kind = "Committed", !.id = oracle_id.val,
                                                    !.n_vars = nv.val,
                                                    !.tower_level = tower_level.val],
                                <<>>, name.val),
                     name.rest)))))
          [] identifier.val \in {3, 8} ->
                Try(read_int(identifier.rest, 4), LAMBDA id :
                Try(read_int(id.rest, 4), LAMBDA len :
                Try(read_exact(len.rest, len.val), LAMBDA buffer :
                Try(MultilinearPolyOracle_read(buffer.val), LAMBDA inner :
                Try(read_int(buffer.rest, 4), LAMBDA trailer :
                Try(read_name(trailer.rest), LAMBDA name :
                IoOk(ReadOracle(IF identifier.val = 3
                                THEN [BlankOracle EXCEPT !.kind = "Repeating", !.id = id.val,
                                                         !.log = trailer.val]
                                ELSE [BlankOracle EXCEPT !.kind = "ZeroPadded", !.id = id.val,
                                                         !.n_vars = trailer.val],
                                <<inner.val>>, name.val),
                     name.rest)))))))
          [] identifier.val \in 4..7 ->
                Try(read_int(identifier.rest, 4), LAMBDA id :
                Try(read_int(id.rest, 4), LAMBDA len :
                Try(read_exact(len.rest, len.val), LAMBDA buffer :
                Try(Inner_read(buffer.val, identifier.val), LAMBDA inner :
                Try(read_name(buffer.rest), LAMBDA name :
                IoOk(ReadOracle([inner.val EXCEPT !.id = id.val], inner.val.inner, name.val),
                     name.rest)))))))

\* ConstraintSet::write, with Constraint::write (the composition, then the
\* predicate; the name is not written) and ConstraintPredicate::write.
ConstraintSet_write(constraint_set) ==
    LET predicate_write(predicate) ==
            IF predicate[1] = "Sum" THEN to_le_bytes(1, 4) \o serialize(predicate[2])
            ELSE to_le_bytes(2, 4)
        constraint_write(constraint) ==
            ArithExpr_write(constraint.composition) \o predicate_write(constraint.predicate)
    IN  write_all(<<to_le_bytes(constraint_set.n_vars, 4),
                    write_ids(constraint_set.oracle_ids),
                    to_le_bytes(Len(constraint_set.constraints), 4),
                    write_all([k \in 1..Len(constraint_set.constraints) |->
                                 constraint_write(constraint_set.constraints[k])])>>)

\* ConstraintSet::read, with Constraint::read and ConstraintPredicate::read.
\* A Sum predicate is deserialized from an empty buffer (BytesMut::new()), not
\* from the reader.
ConstraintSet_read(bytes) ==
    LET predicate_read(b) ==
            Try(Among(read_int(b, 4), {1, 2}, "unreachable"), LAMBDA value :
            IF value.val = 1
            THEN Try(deserialize(<<>>), LAMBDA field : IoOk(<<"Sum", field.val>>, value.rest))
            ELSE IoOk(<<"Zero">>, value.rest))
        RECURSIVE read_constraints(_, _)
        read_constraints(b, n) ==
            IF n = 0 THEN IoOk(<<>>, b)
            ELSE Try(ArithExpr_read(b), LAMBDA composition :
                 Try(predicate_read(composition.rest), LAMBDA predicate :
                 Try(read_constraints(predicate.rest, n - 1), LAMBDA more :
                 IoOk(<<[composition |-> composition.val, predicate |-> predicate.val]>>
                        \o more.val,
                      more.rest))))
    IN  Try(read_int(bytes, 4), LAMBDA nv :
        Try(read_int(nv.rest, 4), LAMBDA oracle_ids_len :
        Try(read_ids(oracle_ids_len.rest, oracle_ids_len.val), LAMBDA oracle_ids :
        Try(read_int(oracle_ids.rest, 4), LAMBDA constraints_len :
        Try(read_constraints(constraints_len.rest, constraints_len.val), LAMBDA constraints :
        IoOk([n_vars |-> nv.val, oracle_ids |-> oracle_ids.val,
              constraints |-> constraints.val],
             constraints.rest))))))

\* ConstraintSystem::write, with MultilinearOracleSet::write.
ConstraintSystem_write(cs) ==
    LET oracle_writes == [k \in 1..size(cs.oracles) |->
                            MultilinearPolyOracle_write(cs.oracles, k - 1)]
    IN  IF \E k \in 1..Len(oracle_writes) : oracle_writes[k].tag = "Panic"
        THEN WritePanic("not yet implemented")
        ELSE Written(write_all(
                <<to_le_bytes(size(cs.oracles), 4),
                  write_all([k \in 1..Len(oracle_writes) |-> oracle_writes[k].bytes]),
                  to_le_bytes(Len(cs.table_constraints), 4),
                  write_all([k \in 1..Len(cs.table_constraints) |->
                               ConstraintSet_write(cs.table_constraints[k])]),
                  write_ids(cs.non_zero_oracle_ids),
                  to_le_bytes(Len(cs.flushes), 4),
                  write_all([k \in 1..Len(cs.flushes) |-> Flush_write(cs.flushes[k])]),
                  to_le_bytes(cs.max_channel_id, 4)>>))

\* ConstraintSystem::read, with MultilinearOracleSet::read.
ConstraintSystem_read(bytes) ==
    LET RECURSIVE read_oracles(_, _)
        read_oracles(b, n) ==
            IF n = 0 THEN IoOk(<<>>, b)
            ELSE Try(MultilinearPolyOracle_read(b), LAMBDA o :
                 Try(read_oracles(o.rest, n - 1), LAMBDA more :
                 IoOk(<<o.val>> \o more.val, more.rest)))
        RECURSIVE read_sets(_, _)
        read_sets(b, n) ==
            IF n = 0 THEN IoOk(<<>>, b)
            ELSE Try(ConstraintSet_read(b), LAMBDA constraint_set :
                 Try(read_sets(constraint_set.rest, n - 1), LAMBDA more :
                 IoOk(<<constraint_set.val>> \o more.val, more.rest)))
        RECURSIVE read_flushes(_, _)
        read_flushes(b, n) ==
            IF n = 0 THEN IoOk(<<>>, b)
            ELSE Try(Flush_read(b), LAMBDA f :
                 Try(read_flushes(f.rest, n - 1), LAMBDA more :
                 IoOk(<<f.val>> \o more.val, more.rest)))
    IN  Try(read_int(bytes, 4), LAMBDA len :
        Try(read_oracles(len.rest, len.val), LAMBDA oracle_values :
        Try(read_int(oracle_values.rest, 4), LAMBDA table_constraints_len :
        Try(read_sets(table_constraints_len.rest, table_constraints_len.val),
            LAMBDA table_constraints :
        Try(read_int(table_constraints.rest, 4), LAMBDA non_zero_oracle_ids_len :
        Try(read_ids(non_zero_oracle_ids_len.rest, non_zero_oracle_ids_len.val),
            LAMBDA non_zero_oracle_ids :
        Try(read_int(non_zero_oracle_ids.rest, 4), LAMBDA flushes_len :
        Try(read_flushes(flushes_len.rest, flushes_len.val), LAMBDA flushes :
        Try(read_int(flushes.rest, 4), LAMBDA max_channel_id :
        IoOk([oracles |-> oracle_values.val,
              table_constraints |-> table_constraints.val,
              non_zero_oracle_ids |-> non_zero_oracle_ids.val,
              flushes |-> flushes.val,
              max_channel_id |-> max_channel_id.val],
             max_channel_id.rest))))))))))

(***************************************************************************)
(* SpecSerialize: a Flush, a Proof or a ConstraintSystem is written into   *)
(* an empty byte vector and read back from the bytes written.              *)
(***************************************************************************)
\* Flushes with fields below, at and above the range of a u32, and
\* multiplicities up to u64::MAX.
FlushValues ==
    {Flush(o, c, d, n, m) : o \in {<<>>, <<0>>, <<1, 0>>, <<0, U32Modulus + 1, 2>>},
                            c \in {0, 1, U32Modulus}, d \in FlushDirection,
                            n \in {0, 1, U32Modulus - 1, U32Modulus},
                            m \in {1, U32Modulus, 2 ^ (8 * ByteBits) - 1}}

Bytes(n, b) == [i \in 1..n |-> b]

\* Proofs with empty, short and longest-accepted streams, and one stream each
\* that Proof::write refuses.
ProofValues ==
    {[transcript |-> t, advice |-> a] :
        t \in {<<>>, <<1>>, <<0, 0, 0, 0>>, <<3, 0, 2>>, Bytes(U32Modulus - 2, 1)},
        a \in {<<>>, <<2>>, <<1, 0, 0, 0, 1>>, Bytes(U32Modulus - 2, 3)}}
    \cup {[transcript |-> Bytes(U32Modulus - 1, 0), advice |-> <<1>>],
          [transcript |-> <<1>>, advice |-> Bytes(U32Modulus - 1, 0)]}

\* Oracle sets whose oracles 0 and 1 are committed with one variable, followed
\* by one oracle of each other kind.
TwoCommitted == committed(committed(new, 1, 0).set, 1, 3).set

SerialOracleSets ==
    {TwoCommitted,
     repeating(TwoCommitted, 1, 1).set,
     repeating(repeating(TwoCommitted, 0, 1).set, 2, 2).set,
     ShiftedSet,
     CombinedSet,
     packed(TwoCommitted, 0, 1).set,
     projected(TwoCommitted, 1, <<2>>, "LastVars").set,
     zero_padded(TwoCommitted, 0, 2).set,
     transparent(TwoCommitted, [n_vars |-> 1, tower_level |-> 0, poly |-> "constant"]).set}

\* The compositions of the table constraints: every ArithExpr kind.
SerialCompositions ==
    <<<<<<0>>, x0>>,
      <<<<1>>, ArithExpr("Mul", x0, x0)>>,
      <<<<0, 1>>, ArithExpr("Add", x0, x1)>>,
      <<<<0>>, ArithExpr("Mul", x0, ArithExpr("Const", 2, 0))>>,
      <<<<1>>, ArithExpr("Pow", x0, 2)>>>>

\* The table constraints build gives over the committed oracles: none, one
\* zerocheck with each composition, one sumcheck, and two zerochecks in two sets.
SerialTables ==
    <<<<>>>>
    \o [k \in 1..Len(SerialCompositions) |->
           build(add_zerocheck(<<>>, "a", SerialCompositions[k][1], SerialCompositions[k][2]),
                 TwoCommitted).sets]
    \o <<build(add_sumcheck(<<>>, <<0>>, x0, FOne), TwoCommitted).sets,
         build(add_zerocheck(add_zerocheck(<<>>, "a", <<0>>, x0), "b", <<1>>, x0),
               TwoCommitted).sets>>

ConstraintSystemOf(o, t, nz, f) ==
    [oracles |-> o, table_constraints |-> t, non_zero_oracle_ids |-> nz, flushes |-> f,
     max_channel_id |-> 1]

InitSerialize ==
    /\ IdleOracle
    /\ IdleChannel
    /\ IdleBalance
    /\ IdleVerify
    /\ IdleBuilder
    /\ IdleFlush
    /\ IdleSerial
    /\ IdleFunction

Wire(kind, value, w) ==
    /\ wire' = [kind |-> kind, value |-> value] @@ w
    /\ UNCHANGED <<decoded, test, oracleVars, channelVars, balanceVars, verifyVars, builderVars,
                   flushVars, functionVars>>

Decode(r) ==
    /\ decoded' = r
    /\ UNCHANGED <<wire, test, oracleVars, channelVars, balanceVars, verifyVars, builderVars,
                   flushVars, functionVars>>

CanRead(kind) == wire # NotRun /\ wire.tag = "Ok" /\ wire.kind = kind /\ decoded = NotRun

WriteFlush ==
    /\ wire = NotRun
    /\ \E f \in FlushValues : Wire("Flush", f, Written(Flush_write(f)))

ReadFlush ==
    /\ CanRead("Flush")
    /\ Decode(Flush_read(wire.bytes))

WriteProof ==
    /\ wire = NotRun
    /\ \E proof \in ProofValues : Wire("Proof", proof, Proof_write(proof))

ReadProof ==
    /\ CanRead("Proof")
    /\ Decode(Proof_read(wire.bytes))

WriteSystem ==
    /\ wire = NotRun
    /\ \E o \in SerialOracleSets, t \in 1..Len(SerialTables), nz \in {<<>>, <<1, 0>>},
          f \in {<<>>, <<Flush(<<0>>, 0, "Push", 1, 1), Flush(<<0, 1>>, 1, "Pull", 2, 3)>>} :
          Wire("ConstraintSystem", ConstraintSystemOf(o, SerialTables[t], nz, f),
               ConstraintSystem_write(ConstraintSystemOf(o, SerialTables[t], nz, f)))

ReadSystem ==
    /\ CanRead("ConstraintSystem")
    /\ Decode(ConstraintSystem_read(wire.bytes))

NextSerialize ==
    \/ WriteFlush
    \/ ReadFlush
    \/ WriteProof
    \/ ReadProof
    \/ WriteSystem
    \/ ReadSystem

SpecSerialize == InitSerialize /\ [][NextSerialize]_vars

(***************************************************************************)
(* Properties of the serialization of Flush and Proof.                     *)
(***************************************************************************)
WroteA(kind) == wire # NotRun /\ wire.kind = kind /\ wire.tag = "Ok"

ReadBack == decoded # NotRun

\* The value read is the value written, and no byte written is left unread.
RoundTrip == decoded.tag = "Ok" /\ decoded.val = wire.value /\ decoded.rest = <<>>

\* The bytes of a Flush as the format describes them: every field but the
\* multiplicity reduced to a u32.
FlushLayout(f) ==
    to_le_bytes(Len(f.oracles) % U32Modulus, 4)
    \o write_all([i \in 1..Len(f.oracles) |-> to_le_bytes(f.oracles[i] % U32Modulus, 4)])
    \o to_le_bytes(f.channel_id % U32Modulus, 4)
    \o to_le_bytes(IF f.direction = "Push" THEN 1 ELSE 2, 4)
    \o to_le_bytes(f.count % U32Modulus, 4)
    \o to_le_bytes(f.multiplicity, 8)

FlushBytesAsDescribed ==
    WroteA("Flush") =>
        /\ wire.bytes = FlushLayout(wire.value)
        /\ Len(wire.bytes) = 4 * Len(wire.value.oracles) + 24

\* C25: Flush::write emits the oracle count, the oracle ids, the channel id,
\* the direction tag (1 = push, 2 = pull) and the count as little-endian u32
\* and the multiplicity as u64, 4k + 24 bytes for k oracles, and Flush::read of
\* those bytes returns a Flush equal to the original in every field.
C25_FlushRoundTrip ==
    /\ FlushBytesAsDescribed
    /\ WroteA("Flush") /\ ReadBack => RoundTrip

FitsU32(f) ==
    /\ \A i \in 1..Len(f.oracles) : f.oracles[i] < U32Modulus
    /\ f.channel_id < U32Modulus
    /\ f.count < U32Modulus

\* What the code gives: the layout always, and the round trip for a Flush
\* whose oracle ids, channel id and count are below 2^32; otherwise the read
\* succeeds with the fields reduced modulo 2^32.
FlushRoundTripWithinU32 ==
    /\ FlushBytesAsDescribed
    /\ WroteA("Flush") /\ ReadBack =>
          /\ decoded.tag = "Ok" /\ decoded.rest = <<>>
          /\ FitsU32(wire.value) <=> decoded.val = wire.value
          /\ decoded.val.count = wire.value.count % U32Modulus
          /\ decoded.val.multiplicity = wire.value.multiplicity

FlushTruncated ==
    /\ WroteA("Flush") /\ ReadBack
    /\ wire.value.count = U32Modulus
    /\ decoded.tag = "Ok" /\ decoded.val.count = 0

\* C26: Proof::write emits a u32 length and the transcript bytes, then a u32
\* length and the advice bytes, and Proof::read of those bytes returns a Proof
\* with the same transcript and the same advice.
C26_ProofRoundTrip ==
    WroteA("Proof") =>
        /\ wire.bytes = to_le_bytes(Len(wire.value.transcript), 4) \o wire.value.transcript
                        \o to_le_bytes(Len(wire.value.advice), 4) \o wire.value.advice
        /\ ReadBack =>
              /\ RoundTrip
              /\ decoded.val.transcript = wire.value.transcript
              /\ decoded.val.advice = wire.value.advice

C26_Witness ==
    /\ WroteA("Proof") /\ ReadBack
    /\ decoded.tag = "Ok"
    /\ decoded.val = [transcript |-> <<3, 0, 2>>, advice |-> <<1, 0, 0, 0, 1>>]

\* Proof::write refuses, by its assertions, a stream of u32::MAX bytes or more.
ProofWriteRefusesLongStreams ==
    wire # NotRun /\ wire.kind = "Proof" =>
        (wire.tag = "Panic" <=> \/ Len(wire.value.transcript) >= U32Modulus - 1
                                \/ Len(wire.value.advice) >= U32Modulus - 1)

(***************************************************************************)
(* Properties of the serialization of a ConstraintSystem.                  *)
(***************************************************************************)
\* Oracle `id` of the set as a value of its own, its inner oracles in full
\* and unnamed: what an equal oracle read back looks like.
RECURSIVE Expanded(_, _)
Expanded(set, id) ==
    ReadOracle(oracle(set, id),
               [k \in 1..Len(oracle(set, id).inner) |-> Expanded(set, oracle(set, id).inner[k])],
               <<>>)

\* The fields of the system the comparison is about: names of constraints
\* are left out.
Compared(cs) ==
    [oracles |-> [k \in 1..size(cs.oracles) |-> Expanded(cs.oracles, k - 1)],
     table_constraints |->
        [k \in 1..Len(cs.table_constraints) |->
            [n_vars |-> cs.table_constraints[k].n_vars,
             oracle_ids |-> cs.table_constraints[k].oracle_ids,
             constraints |->
                [j \in 1..Len(cs.table_constraints[k].constraints) |->
                    [composition |-> cs.table_constraints[k].constraints[j].composition,
                     predicate |-> cs.table_constraints[k].constraints[j].predicate]]]],
     non_zero_oracle_ids |-> cs.non_zero_oracle_ids,
     flushes |-> cs.flushes,
     max_channel_id |-> cs.max_channel_id]

SystemWritten == wire # NotRun /\ wire.kind = "ConstraintSystem"

SystemRead == SystemWritten /\ wire.tag = "Ok" /\ ReadBack

\* C24: for every valid ConstraintSystem, ConstraintSystem::read of the bytes
\* ConstraintSystem::write produces returns a system equal to the original in
\* its oracle set, table constraints (n_vars, oracle ids, compositions and
\* predicates), non-zero oracle ids, flushes and max_channel_id, and consumes
\* exactly the bytes written.
C24_SystemRoundTrip ==
    /\ SystemWritten => wire.tag = "Ok"
    /\ SystemRead =>
          /\ decoded.tag = "Ok"
          /\ decoded.val = Compared(wire.value)
          /\ decoded.rest = <<>>

\* The systems the code does bring back: the oracles are Committed or
\* Repeating, the predicates are Zero, and a composition is a variable or a
\* sum or product of two equal such compositions.
RECURSIVE PlainOracle(_, _)
PlainOracle(set, id) ==
    \/ oracle(set, id).kind = "Committed"
    \/ /\ oracle(set, id).kind = "Repeating"
       /\ PlainOracle(set, oracle(set, id).inner[1])

RECURSIVE PlainComposition(_)
PlainComposition(expr) ==
    \/ expr.kind = "Var"
    \/ /\ expr.kind \in {"Add", "Mul"}
       /\ expr.a = expr.b
       /\ PlainComposition(expr.a)

PlainSystem(cs) ==
    /\ \A k \in 1..size(cs.oracles) : PlainOracle(cs.oracles, k - 1)
    /\ \A k \in 1..Len(cs.table_constraints) :
          \A j \in 1..Len(cs.table_constraints[k].constraints) :
             /\ cs.table_constraints[k].constraints[j].predicate = <<"Zero">>
             /\ PlainComposition(cs.table_constraints[k].constraints[j].composition)

HasKind(cs, kinds) == \E k \in 1..size(cs.oracles) : oracle(cs.oracles, k - 1).kind \in kinds

HasSum(cs) ==
    \E k \in 1..Len(cs.table_constraints) :
       \E j \in 1..Len(cs.table_constraints[k].constraints) :
          cs.table_constraints[k].constraints[j].predicate[1] = "Sum"

\* What the code gives: the round trip exactly for the plain systems; write
\* panics exactly for a set with a Transparent oracle; read fails on the first
\* Projected, Shifted, Packed, LinearCombination or ZeroPadded oracle.
SystemRoundTripOfPlainSystems ==
    /\ SystemWritten => (wire.tag = "Panic" <=> HasKind(wire.value, {"Transparent"}))
    /\ SystemRead =>
          /\ PlainSystem(wire.value) <=>
                /\ decoded.tag = "Ok"
                /\ decoded.val = Compared(wire.value)
                /\ decoded.rest = <<>>
          /\ HasKind(wire.value, {"Projected", "Shifted", "Packed", "LinearCombination",
                                  "ZeroPadded"}) => decoded.tag = "Err"

SystemComesBack ==
    /\ SystemRead
    /\ decoded.tag = "Ok" /\ decoded.val = Compared(wire.value) /\ decoded.rest = <<>>
    /\ wire.value.table_constraints # <<>> /\ wire.value.flushes # <<>>
    /\ HasKind(wire.value, {"Repeating"})

SumPredicatePanics ==
    /\ SystemRead
    /\ wire.value.oracles = TwoCommitted
    /\ HasSum(wire.value)
    /\ decoded.tag = "Panic"

(***************************************************************************)
(* SpecTest: prove_verify_test, in its two versions.  The version of        *)
(* acc-utils first writes the constraint system and reads it back, and      *)
(* goes on with the system read; the version of the examples goes on with   *)
(* the system it was given.  The prover is the environment: it returns an   *)
(* error, or a proof that verify may or may not accept.                     *)
(***************************************************************************)
\* ArithExpr::degree
RECURSIVE degree(_)
degree(expr) ==
    CASE expr.kind = "Const" -> 0
      [] expr.kind = "Var" -> 1
      [] expr.kind = "Add" -> Max({degree(expr.a), degree(expr.b)})
      [] expr.kind = "Mul" -> degree(expr.a) + degree(expr.b)
      [] expr.kind = "Pow" -> degree(expr.a) * expr.b

\* The system as verify_with_pcs takes it: the oracles as a set (inner
\* oracles by id) and each table by its n_vars and its degree.
VerifierView(cs) ==
    [oracles |-> [k \in 1..Len(cs.oracles) |->
                    [x \in DOMAIN cs.oracles[k] \ {"name"} |->
                        IF x = "inner"
                        THEN [j \in 1..Len(cs.oracles[k].inner) |-> cs.oracles[k].inner[j].id]
                        ELSE cs.oracles[k][x]]],
     table_constraints |->
        [k \in 1..Len(cs.table_constraints) |->
            ConstraintSet(cs.table_constraints[k].n_vars,
                          Max({degree(cs.table_constraints[k].constraints[j].composition) :
                                 j \in 1..Len(cs.table_constraints[k].constraints)}),
                          "")],
     non_zero_oracle_ids |-> cs.non_zero_oracle_ids,
     flushes |-> cs.flushes,
     max_channel_id |-> cs.max_channel_id]

TestVersions == {"acc-utils", "examples"}

\* Oracle sets and table constraints of the systems under test: some come
\* back from the serialization and some do not.
TestOracleSets == {TwoCommitted, repeating(TwoCommitted, 1, 1).set, ShiftedSet}

TestTables == {2, 3, 4, 7}

\* The proofs the prover may return for the system.
TestProofs(view) ==
    {BuildProof(view, nz, <<>>, fail, ids, <<0, 0>>) :
        nz \in {[i \in 1..Len(view.non_zero_oracle_ids) |-> v] : v \in {0, 1}},
        fail \in {"none", "zerocheck", "pcs", "truncated"},
        ids \in BatchLists(view)}

InitTest ==
    /\ IdleOracle
    /\ IdleChannel
    /\ IdleBalance
    /\ IdleVerify
    /\ IdleBuilder
    /\ IdleFlush
    /\ IdleSerial
    /\ IdleFunction

TestUnchanged ==
    UNCHANGED <<wire, decoded, oracleVars, channelVars, balanceVars, verifyVars, builderVars,
                flushVars, functionVars>>

\* prove_verify_test(witness, constraints) is called.
TestCall ==
    /\ test = NotRun
    /\ \E version \in TestVersions, o \in TestOracleSets, t \in TestTables,
          nz \in {<<>>, <<1, 0>>} :
          test' = [pc |-> IF version = "acc-utils" THEN "serialize" ELSE "prove",
                   version |-> version,
                   given |-> ConstraintSystemOf(o, SerialTables[t], nz, <<>>),
                   constraints |-> Compared(ConstraintSystemOf(o, SerialTables[t], nz, <<>>)),
                   prove |-> NotRun, verify_calls |-> 0, verify |-> NotRun,
                   returned |-> <<>>, panic |-> ""]
    /\ TestUnchanged

At(pc) == test # NotRun /\ test.pc = pc

\* constraints.write(&mut buf).expect(..), ConstraintSystem::read(..).expect(..)
TestSerialize ==
    /\ At("serialize")
    /\ LET w == ConstraintSystem_write(test.given)
           r == ConstraintSystem_read(w.bytes)
       IN  test' = IF w.tag # "Ok"
                   THEN [test EXCEPT !.pc = "panicked", !.panic = w.err]
                   ELSE IF r.tag = "Panic"
                   THEN [test EXCEPT !.pc = "panicked", !.panic = r.err]
                   ELSE IF r.tag = "Err"
                   THEN [test EXCEPT !.pc = "panicked",
                                     !.panic = "constraints deserialization issue"]
                   ELSE [test EXCEPT !.pc = "prove", !.constraints = r.val]
    /\ TestUnchanged

\* constraint_system::prove returns Ok(proof); prove_no_issues is true.
TestProveOk ==
    /\ At("prove")
    /\ \E proof \in TestProofs(VerifierView(test.constraints)) :
          test' = [test EXCEPT !.pc = "verify", !.prove = [tag |-> "Ok", proof |-> proof]]
    /\ TestUnchanged

\* A plausible slip: the result of prove is not tested, and verify is given
\* an empty proof.
TestProveErr_NoEarlyReturn ==
    /\ At("prove")
    /\ test' = [test EXCEPT !.pc = "verify",
                            !.prove = [tag |-> "Err",
                                       proof |-> [transcript |-> <<>>, advice |-> <<>>]]]
    /\ TestUnchanged

\* constraint_system::prove returns Err: the early return of (false, false).
TestProveErr ==
    /\ At("prove")
    /\ test' = [test EXCEPT !.pc = "returned", !.prove = [tag |-> "Err"],
                            !.returned = <<FALSE, FALSE>>]
    /\ TestUnchanged

\* constraint_system::verify(&constraints, .., vec![], proof.unwrap()) and the
\* return of (prove_no_issues, verify_no_issues).
TestVerified(t, out) ==
    [t EXCEPT !.verify_calls = t.verify_calls + 1, !.verify = out,
              !.pc = IF out.tag = "Panic" THEN "panicked" ELSE "returned",
              !.panic = IF out.tag = "Panic" THEN out.err ELSE "",
              !.returned = IF out.tag = "Panic" THEN <<>>
                           ELSE <<t.prove.tag = "Ok", out.tag = "Ok">>]

TestVerify ==
    /\ At("verify")
    /\ test' = TestVerified(test, verify_with_pcs(VerifierView(test.constraints), <<>>,
                                                  test.prove.proof).s.result)
    /\ TestUnchanged

NextTest ==
    \/ TestCall
    \/ TestSerialize
    \/ TestProveOk
    \/ TestProveErr
    \/ TestVerify

SpecTest == InitTest /\ [][NextTest]_vars

(***************************************************************************)
(* Properties of prove_verify_test.                                        *)
(***************************************************************************)
Returned == test # NotRun /\ test.pc = "returned"

\* C27: prove_verify_test returns (false, false) without calling verify
\* whenever prove returns an error, and otherwise returns (true, v) where v is
\* true exactly when verify returned Ok; (false, true) is never returned.
C27_ProveVerifyOutcome ==
    test # NotRun =>
        /\ test.prove.tag = "Err" =>
              Returned /\ test.returned = <<FALSE, FALSE>> /\ test.verify_calls = 0
        /\ Returned /\ test.prove.tag # "Err" =>
              /\ test.prove.tag = "Ok"
              /\ test.verify_calls = 1
              /\ test.verify.tag \in {"Ok", "Err"}
              /\ test.returned = <<TRUE, test.verify.tag = "Ok">>
        /\ test.returned # <<FALSE, TRUE>>
        /\ test.pc = "verify" => test.prove.tag = "Ok"

C27_Witness ==
    /\ Returned
    /\ test.version = "acc-utils"
    /\ test.returned = <<TRUE, FALSE>>
    /\ test.verify.tag = "Err"

ProveErrReturned == Returned /\ test.prove.tag = "Err" /\ test.returned = <<FALSE, FALSE>>

BothSucceed == Returned /\ test.returned = <<TRUE, TRUE>>

\* The version of acc-utils panics before prove is called when the system
\* does not come back from its serialization.
PanicsBeforeProve ==
    /\ test # NotRun /\ test.pc = "panicked"
    /\ test.version = "acc-utils"
    /\ test.prove = NotRun

(***************************************************************************)
(* The order of the phases of verify_with_pcs and of its challenges.       *)
(***************************************************************************)
\* The phases in the order of the function body; "nonzero", "flush_setup"
\* and "balance" make up the grand-product setup.
PhaseOrder ==
    <<"clone", "commit", "nonzero", "flush_setup", "balance", "gkr", "flush_sumcheck",
      "zerocheck", "evalcheck", "coverage", "pcs", "finalize">>

\* The sub-protocol verifiers whose verdict material follows the claimed
\* products in the transcript, in this order.
SubProtocols == <<"gkr", "flush_sumcheck", "zerocheck", "evalcheck">>

\* The position of the verdict material of SubProtocols[k] in the proof.
VerdictPosition(k) ==
    n_batches(caller.oracles) + Len(caller.non_zero_oracle_ids) + Len(caller.flushes) + k

Rejected(r, k) ==
    /\ Len(r.proof.transcript) >= VerdictPosition(k)
    /\ r.proof.transcript[VerdictPosition(k)] = 0

\* The run has executed a prefix of the phases, in order; it ends with Ok
\* only after the last phase; a sub-protocol that rejects is the last phase
\* executed and the run has ended with an error.
InPhaseOrder(r) ==
    /\ Len(r.trace) <= Len(PhaseOrder)
    /\ r.trace = SubSeq(PhaseOrder, 1, Len(r.trace))
    /\ r.pc # "done" => r.pc = PhaseOrder[Len(r.trace) + 1] /\ r.result = NotRun
    /\ r.pc = "done" =>
          /\ r.result.tag \in {"Ok", "Err"}
          /\ r.result.tag = "Ok" => r.trace = PhaseOrder
          /\ Len(r.trace) < Len(PhaseOrder) => r.result.tag = "Err"
    /\ \A k \in 1..Len(SubProtocols) :
          Ran(r, SubProtocols[k]) /\ Rejected(r, k) =>
             /\ r.pc = "done"
             /\ r.result.tag = "Err"
             /\ r.trace[Len(r.trace)] = SubProtocols[k]

\* A step is the next phase of a run that has not ended, and leaves a run
\* that has ended (its readers included) as it is.
PhaseStep ==
    \A v \in DOMAIN runs :
        /\ runs[v].pc = "done" => runs'[v] = runs[v]
        /\ runs'[v] # runs[v] =>
              /\ runs'[v].trace = Append(runs[v].trace, runs[v].pc)
              /\ runs'[v].transcript.pos >= runs[v].transcript.pos
              /\ runs'[v].transcript.sampled >= runs[v].transcript.sampled
              /\ runs'[v].advice.pos >= runs[v].advice.pos
              /\ InPhaseOrder(runs'[v])

\* C28: the phases of verify_with_pcs run in the fixed order read commitments,
\* grand-product setup (non-zero check, channel balance), GKR, flush sumcheck,
\* zerocheck, evalcheck, coverage check, PCS verification, finalize; the first
\* phase that fails ends the run with an error, and nothing is read or sampled
\* after it.
C28_PhasesInOrder ==
    /\ [](\A v \in DOMAIN runs : InPhaseOrder(runs[v]))
    /\ [][PhaseStep]_vars

\* The zerocheck rejects: the run ends there, after the eight phases before it.
C28_Witness ==
    \E v \in DOMAIN runs :
        /\ runs[v].pc = "done"
        /\ runs[v].result = VwErr("VerificationError", 0)
        /\ runs[v].trace = SubSeq(PhaseOrder, 1, 8)
        /\ Rejected(runs[v], 3)

\* The transcript reader as it is when the challenges are sampled: the
\* commitments and the non-zero products read, no challenge drawn.
ReaderAtSetup(r) ==
    [data |-> r.proof.transcript,
     pos |-> n_batches(caller.oracles) + Len(caller.non_zero_oracle_ids),
     sampled |-> 0]

\* The flush oracle made for flush i of the flushes sorted by channel id: the
\* flush oracles follow the oracles of the caller's system, in that order.
FlushOracleOf(v, i) == oracle(heap[working(v)].oracles, size(caller.oracles) + i - 1)

\* C29: verify_with_pcs samples one mixing challenge and then exactly
\* max_channel_id + 1 permutation challenges, one per channel id in increasing
\* order whichever channel ids are used; the challenge used for channel c is
\* the one at index c.
C29_ChallengePerChannel ==
    \A v \in DOMAIN runs :
       Ran(runs[v], "flush_setup") =>
          /\ runs[v].mixing_challenge = challenge(ReaderAtSetup(runs[v]), 0)
          /\ Len(runs[v].permutation_challenges) = caller.max_channel_id + 1
          /\ \A c \in 0..caller.max_channel_id :
                runs[v].permutation_challenges[c + 1] = challenge(ReaderAtSetup(runs[v]), c + 1)
          /\ Ran(runs[v], "zerocheck") \/
                runs[v].transcript.sampled = 1 + (caller.max_channel_id + 1)
          /\ \A i \in 1..Len(runs[v].flush_oracle_ids) :
                FlushOracleOf(v, i).offset =
                   runs[v].permutation_challenges[heap[working(v)].flushes[i].channel_id + 1]

\* System1 with a boundary on channel 0 only: two permutation challenges, the
\* flush oracle of the flush on channel 1 made with the second.
C29_Witness ==
    \E v \in DOMAIN runs :
        /\ caller = System1
        /\ runs[v].boundaries # <<>>
        /\ Ran(runs[v], "balance")
        /\ Len(runs[v].permutation_challenges) = 2
        /\ Len(runs[v].flush_oracle_ids) = 2
        /\ heap[working(v)].flushes[2].channel_id = 1
        /\ Range(runs[v].flush_oracle_ids) = {2, 3}
        /\ FlushOracleOf(v, 2).offset = runs[v].permutation_challenges[2]
        /\ runs[v].permutation_challenges[1] # runs[v].permutation_challenges[2]

ProductsRead(r) == r.transcript.pos - n_batches(caller.oracles)

ChallengesSampled(r) == r.transcript.sampled >= 1 + (caller.max_channel_id + 1)

\* C30: the mixing challenge and the permutation challenges are sampled, and
\* the flush oracles built, before the claimed grand products of the
\* non-zero-asserted oracles and of the flush oracles are read; the non-zero
\* check runs only after that setup.
C30_ChallengesBeforeProducts ==
    \A v \in DOMAIN runs :
        /\ ProductsRead(runs[v]) > 0 =>
              ChallengesSampled(runs[v]) /\ Ran(runs[v], "flush_setup")
        /\ Ran(runs[v], "nonzero") => Ran(runs[v], "flush_setup")

\* The order of the code: the non-zero products are read and tested before
\* any challenge is sampled; the challenges are sampled and the flush oracles
\* built, one for every flush on a channel up to max_channel_id, before the
\* flush products are read.
NonZeroProductsBeforeChallenges ==
    \A v \in DOMAIN runs :
        /\ runs[v].transcript.sampled > 0 \/ Ran(runs[v], "flush_setup") =>
              /\ Ran(runs[v], "nonzero")
              /\ ProductsRead(runs[v]) >= Len(caller.non_zero_oracle_ids)
              /\ runs[v].non_zero_products = NonZeroProductsOf(runs[v])
              /\ \A i \in 1..Len(runs[v].non_zero_products) :
                    runs[v].non_zero_products[i] # FZero
        /\ ProductsRead(runs[v]) > Len(caller.non_zero_oracle_ids) =>
              /\ ChallengesSampled(runs[v])
              /\ Ran(runs[v], "flush_setup")
              /\ Len(runs[v].flush_oracle_ids) =
                    Cardinality({i \in 1..Len(caller.flushes) :
                                   caller.flushes[i].channel_id <= caller.max_channel_id})
        /\ Ran(runs[v], "balance") => Ran(runs[v], "flush_setup")

\* The non-zero product has been read and tested, and no challenge has been
\* sampled yet.
C30_Witness ==
    \E v \in DOMAIN runs :
        /\ caller = System1
        /\ runs[v].pc = "flush_setup"
        /\ runs[v].non_zero_products = <<2>>
        /\ ProductsRead(runs[v]) = 1
        /\ runs[v].transcript.sampled = 0
        /\ runs[v].flush_oracle_ids = <<>>

(***************************************************************************)
(* SpecFunctions: the pure functions of verify.rs and arith_expr.rs, each  *)
(* applied once to arguments drawn from bounded sets.                      *)
(***************************************************************************)
MaxFnFlushes == 2

MaxFnChannelId == 2

MaxFnItems == 3

MaxFnClaims == 2

MaxFnNVars == 3

\* Field subtraction: in characteristic 2 it is the addition.
FSub(a, b) == FAdd(a, b)

\* A plausible slip: the rows the step mask leaves out contribute nothing.
evaluate_NoMask(query) == FMul(FMul(query[2], query[1]), query[3])

\* FlushSumcheckComposition::evaluate on query = (unmasked_flush, step_down, eq_ind).
evaluate(query) ==
    LET unmasked_flush == query[1]
        step_down == query[2]
        eq_ind == query[3]
    IN  FMul(FAdd(FMul(step_down, unmasked_flush), FSub(FOne, step_down)), eq_ind)

\* Five committed columns: two of one variable, two of two, one more of one.
FlushColumns ==
    committed(committed(committed(committed(committed(new, 1, 0).set, 1, 0).set,
                                  2, 0).set, 2, 0).set, 1, 0).set

\* The column lists of a flush: one, two and three columns of equal n_vars,
\* columns of different n_vars, no column, a column the set does not have.
FnColumnLists == {<<0>>, <<0, 1>>, <<1, 0, 4>>, <<2>>, <<3, 2>>, <<0, 2>>, <<>>, <<5>>}

FnFlushArgs ==
    {Flush(o, c, "Push", 1, 1) : o \in FnColumnLists, c \in 0..MaxFnChannelId}

\* The permutation challenges: fewer than MaxFnChannelId + 1 of them, so that a
\* flush may name a channel without challenge.
FnPermutationChallenges == {<<2>>, <<3, 1>>, <<0, 2>>}

\* The expressions remap_vars, write and read are applied to.
FnExprs ==
    <<x0,
      x1,
      ArithExpr("Const", 2, 0),
      ArithExpr("Add", x0, x1),
      ArithExpr("Mul", x1, x0),
      ArithExpr("Mul", x0, x0),
      ArithExpr("Pow", x1, 3),
      ArithExpr("Add", x0, ArithExpr("Const", FOne, 0)),
      ArithExpr("Pow", ArithExpr("Mul", ArithExpr("Add", x0, ArithExpr("Const", FOne, 0)), x1), 3),
      ArithExpr("Mul", ArithExpr("Var", 2, 0), ArithExpr("Pow", x0, 2))>>

FnIndices == {0, 3, 5}

FnDegrees == {0, 1, 2, 3, 5}

FnDomainBits == {0, 1, 2, FDomainBits}

FnCall(name, args) == [fn |-> name, args |-> args]

FnResult(value) == [tag |-> "returned", val |-> value]

InitFunctions ==
    /\ IdleOracle
    /\ IdleChannel
    /\ IdleBalance
    /\ IdleVerify
    /\ IdleBuilder
    /\ IdleFlush
    /\ IdleSerial
    /\ fn_out = NotRun
    /\ \/ \E n \in 0..MaxFnFlushes : \E flushes \in [1..n -> FnFlushArgs] :
          \E mixing_challenge \in F : \E permutation_challenges \in FnPermutationChallenges :
             /\ SortedByChannel(flushes)
             /\ fn_in = FnCall("make_flush_oracles",
                               <<FlushColumns, flushes, mixing_challenge, permutation_challenges>>)
       \/ \E n \in 0..MaxFnItems : \E ids \in [1..n -> 0..3] : \E counts \in [1..n -> 1..2] :
          \E claims \in {[i \in 1..n |-> i % 4], [i \in 1..n |-> (n - i) % 4]} :
             fn_in = FnCall("reorder_for_flushing_by_n_vars", <<FlushColumns, ids, counts, claims>>)
       \/ \E query \in [1..3 -> F] :
             fn_in = FnCall("evaluate", query)
       \/ \E n \in 0..MaxFnClaims :
          \E zerocheck_claims \in [1..n -> [n_vars : 0..MaxFnNVars, degree : FnDegrees]] :
          \E domain_bits \in FnDomainBits :
             fn_in = FnCall("max_n_vars_and_skip_rounds", <<zerocheck_claims, domain_bits>>)
       \/ \E k \in 1..Len(FnExprs) : \E n \in 0..2 : \E indices \in [1..n -> FnIndices] :
             fn_in = FnCall("remap_vars", <<FnExprs[k], indices>>)
       \/ \E k \in 1..Len(FnExprs) :
             fn_in = FnCall("write", FnExprs[k])

FnUnchanged ==
    UNCHANGED <<fn_in, oracleVars, channelVars, balanceVars, verifyVars, builderVars, flushVars,
                serialVars>>

MakeFlushOracles ==
    /\ fn_out = NotRun
    /\ fn_in.fn = "make_flush_oracles"
    /\ fn_out' = FnResult(make_flush_oracles(fn_in.args[1], fn_in.args[2], fn_in.args[3],
                                             fn_in.args[4]))
    /\ FnUnchanged

ReorderForFlushing ==
    /\ fn_out = NotRun
    /\ fn_in.fn = "reorder_for_flushing_by_n_vars"
    /\ fn_out' = FnResult(reorder_for_flushing_by_n_vars(fn_in.args[1], fn_in.args[2],
                                                         fn_in.args[3], fn_in.args[4]))
    /\ FnUnchanged

Evaluate ==
    /\ fn_out = NotRun
    /\ fn_in.fn = "evaluate"
    /\ fn_out' = FnResult(evaluate(fn_in.args))
    /\ FnUnchanged

MaxNVarsAndSkipRounds ==
    /\ fn_out = NotRun
    /\ fn_in.fn = "max_n_vars_and_skip_rounds"
    /\ fn_out' = FnResult(max_n_vars_and_skip_rounds(fn_in.args[1], fn_in.args[2]))
    /\ FnUnchanged

RemapVars ==
    /\ fn_out = NotRun
    /\ fn_in.fn = "remap_vars"
    /\ fn_out' = FnResult(remap_vars(fn_in.args[1], fn_in.args[2]))
    /\ FnUnchanged

\* ArithExpr::write into an empty buffer, then ArithExpr::read on the buffer.
WriteReadExpr ==
    /\ fn_out = NotRun
    /\ fn_in.fn = "write"
    /\ fn_out' = FnResult(ArithExpr_read(ArithExpr_write(fn_in.args)))
    /\ FnUnchanged

NextFunctions ==
    \/ MakeFlushOracles
    \/ ReorderForFlushing
    \/ Evaluate
    \/ MaxNVarsAndSkipRounds
    \/ RemapVars
    \/ WriteReadExpr

SpecFunctions == InitFunctions /\ [][NextFunctions]_vars

FnRan(name) == fn_out # NotRun /\ fn_in.fn = name

(***************************************************************************)
(* make_flush_oracles.                                                     *)
(***************************************************************************)
\* The oracle with handle id is the linear combination the flush fl stands for:
\* over the flushed columns, of their n_vars, offset by the permutation
\* challenge of the channel, the i-th column weighted by mixing_challenge^i.
FlushOracleAsDescribed(set, id, fl, mixing_challenge, permutation_challenges) ==
    LET o == oracle(set, id)
    IN  /\ o.kind = "LinearCombination"
        /\ o.inner = fl.oracles
        /\ \A i \in 1..Len(fl.oracles) : n_vars(set, fl.oracles[i]) = n_vars(set, id)
        /\ o.offset = permutation_challenges[fl.channel_id + 1]
        /\ Len(o.coeffs) = Len(fl.oracles)
        /\ o.coeffs[1] = FOne
        /\ \A i \in 1..Len(fl.oracles) : o.coeffs[i] = pow_vartime(mixing_challenge, i - 1)

\* The result appends one oracle as described for each of the given flushes, in
\* order, and leaves the oracles the set had as they were.
FlushOraclesFor(flushes) ==
    LET set == fn_in.args[1]
        r == fn_out.val
    IN  /\ Len(r.ids) = Len(flushes)
        /\ Len(r.set) = Len(set) + Len(flushes)
        /\ SubSeq(r.set, 1, Len(set)) = set
        /\ \A j \in 1..Len(flushes) :
              /\ r.ids[j] = Len(set) + j - 1
              /\ FlushOracleAsDescribed(r.set, r.ids[j], flushes[j], fn_in.args[3],
                                        fn_in.args[4])

MadeFlushOracles == FnRan("make_flush_oracles") /\ fn_out.val.tag = "Ok"

\* C33 as stated: make_flush_oracles, given flushes sorted by channel id,
\* appends for each flush one LinearCombination oracle whose n_vars is the
\* flushed columns' n_vars, whose offset is the permutation challenge of the
\* flush's channel and whose coefficient for the i-th column is
\* mixing_challenge^i, however many columns earlier flushes had.
C33_OraclePerFlush == MadeFlushOracles => FlushOraclesFor(fn_in.args[2])

\* The flushes whose channel id has a permutation challenge: of a list sorted by
\* channel id these are the first ones.
WithChallenge(flushes, permutation_challenges) ==
    SubSeq(flushes, 1,
           Cardinality({j \in 1..Len(flushes) :
                          flushes[j].channel_id < Len(permutation_challenges)}))

\* C33 as the code has it: the oracles are appended for the flushes whose
\* channel id is below the number of permutation challenges; a flush of a
\* higher channel gets no oracle, and the call succeeds all the same.
FlushOraclePerChallengedFlush ==
    MadeFlushOracles => FlushOraclesFor(WithChallenge(fn_in.args[2], fn_in.args[4]))

\* A flush of three columns was followed by one of two columns, under a mixing
\* challenge whose powers differ, and both oracles were made.
C33_Witness ==
    /\ MadeFlushOracles
    /\ Len(fn_in.args[2]) = 2
    /\ Len(fn_in.args[2][1].oracles) = 3
    /\ Len(fn_in.args[2][2].oracles) = 2
    /\ fn_in.args[3] = 2
    /\ Len(fn_out.val.ids) = 2

\* A flush on channel 1 under a single permutation challenge: the call
\* succeeded and made no oracle for it.
FlushWithoutOracle ==
    /\ MadeFlushOracles
    /\ fn_in.args[2] = <<Flush(<<0>>, 0, "Push", 1, 1), Flush(<<2>>, 1, "Push", 1, 1)>>
    /\ fn_in.args[4] = <<2>>
    /\ Len(fn_out.val.ids) = 1

(***************************************************************************)
(* reorder_for_flushing_by_n_vars.                                         *)
(***************************************************************************)
\* p tells, for every place of the result, the place of the input its triple
\* of oracle id, count and claim comes from.
ReorderedBy(p) ==
    LET ids == fn_in.args[2]
        counts == fn_in.args[3]
        claims == fn_in.args[4]
        out == fn_out.val
    IN  \A k \in 1..Len(ids) :
            /\ out[1][k] = ids[p[k]]
            /\ out[2][k] = counts[p[k]]
            /\ out[3][k] = claims[p[k]]

NVarsAt(k) == n_vars(fn_in.args[1], fn_out.val[1][k])

\* C35: reorder_for_flushing_by_n_vars returns a permutation of its input in
\* which the flush oracle ids are in non-increasing n_vars order, each oracle id
\* stays paired with its own count and its own final-layer claim, and entries
\* with equal n_vars keep their relative order.
C35_StableDescending ==
    FnRan("reorder_for_flushing_by_n_vars") =>
        LET n == Len(fn_in.args[2])
        IN  /\ Len(fn_out.val[1]) = n
            /\ Len(fn_out.val[2]) = n
            /\ Len(fn_out.val[3]) = n
            /\ \A k, l \in 1..n : k < l => NVarsAt(k) >= NVarsAt(l)
            /\ \E p \in Permutations(1..n) :
                  /\ ReorderedBy(p)
                  /\ \A k, l \in 1..n : (k < l /\ NVarsAt(k) = NVarsAt(l)) => p[k] < p[l]

\* Oracles of one, two and one variables with different counts: the second
\* came first and the other two kept their order.
C35_Witness ==
    /\ FnRan("reorder_for_flushing_by_n_vars")
    /\ fn_in.args[2] = <<1, 2, 0>>
    /\ fn_in.args[3] = <<1, 2, 2>>
    /\ fn_in.args[4] = <<1, 2, 3>>
    /\ fn_out.val = <<<<2, 1, 0>>, <<2, 1, 2>>, <<2, 1, 3>>>>

(***************************************************************************)
(* FlushSumcheckComposition::evaluate.                                     *)
(***************************************************************************)
\* C36: FlushSumcheckComposition::evaluate on the query (value, step, eq)
\* returns (step * value + (1 - step)) * eq for all field elements, so it
\* equals value * eq where the step mask is 1 and eq where the mask is 0.
C36_MaskedValue ==
    FnRan("evaluate") =>
        LET value == fn_in.args[1]
            step == fn_in.args[2]
            eq == fn_in.args[3]
        IN  /\ \E d \in F :
                  /\ FAdd(d, step) = FOne
                  /\ fn_out.val = FMul(FAdd(FMul(step, value), d), eq)
            /\ step = FOne => fn_out.val = FMul(value, eq)
            /\ step = FZero => fn_out.val = eq

\* A row the mask leaves out, with a flush value other than one: the result
\* is the equality indicator alone.
C36_Witness ==
    /\ FnRan("evaluate")
    /\ fn_in.args = <<2, FZero, 3>>
    /\ fn_out.val = 3

(***************************************************************************)
(* max_n_vars_and_skip_rounds.                                             *)
(***************************************************************************)
\* k is the least exponent with 2^k >= d.
IsCeilLog2(k, d) == 2^k >= d /\ (k = 0 \/ 2^(k - 1) < d)

\* C37: max_n_vars_and_skip_rounds returns (max_n_vars, skip_rounds) where
\* max_n_vars is the largest claim n_vars (0 when there are no claims),
\* skip_rounds <= max_n_vars, and skip_rounds <= max_n_vars - n_vars +
\* max(domain_bits - ceil(log2(max individual degree)), 0) for every claim;
\* hence max_n_vars - skip_rounds is never negative.
C37_SkipRoundsBounded ==
    FnRan("max_n_vars_and_skip_rounds") =>
        LET zerocheck_claims == fn_in.args[1]
            domain_bits == fn_in.args[2]
            max_n_vars == fn_out.val[1]
            skip_rounds == fn_out.val[2]
            idx == 1..Len(zerocheck_claims)
        IN  /\ idx = {} => max_n_vars = 0
            /\ idx # {} => \E i \in idx : zerocheck_claims[i].n_vars = max_n_vars
            /\ \A i \in idx : zerocheck_claims[i].n_vars <= max_n_vars
            /\ skip_rounds \in Nat
            /\ skip_rounds <= max_n_vars
            /\ \A i \in idx : \E k \in 0..3 :
                  /\ IsCeilLog2(k, zerocheck_claims[i].degree)
                  /\ skip_rounds <= max_n_vars - zerocheck_claims[i].n_vars
                                      + Max({domain_bits - k, 0})
            /\ max_n_vars - skip_rounds >= 0

\* A claim of three variables and degree 2 and one of one variable and degree
\* 5 over a domain of two bits: the first claim allows one skipped round, and
\* for the second the domain bits run out.
C37_Witness ==
    /\ FnRan("max_n_vars_and_skip_rounds")
    /\ fn_in.args = <<<<[n_vars |-> 3, degree |-> 2], [n_vars |-> 1, degree |-> 5]>>, 2>>
    /\ fn_out.val = <<3, 1>>

(***************************************************************************)
(* ArithExpr::remap_vars.                                                  *)
(***************************************************************************)
\* PartialEq of ArithExpr: the same variant with equal fields.
RECURSIVE EqualExpr(_, _)
EqualExpr(x, y) ==
    /\ x.kind = y.kind
    /\ CASE x.kind \in {"Const", "Var"} -> x.a = y.a
         [] x.kind \in {"Add", "Mul"} -> EqualExpr(x.a, y.a) /\ EqualExpr(x.b, y.b)
         [] x.kind = "Pow" -> EqualExpr(x.a, y.a) /\ x.b = y.b

\* r is the tree of expr with every Var(i) turned into Var(indices[i]) and
\* nothing else changed.
RECURSIVE SameTreeRemapped(_, _, _)
SameTreeRemapped(expr, r, indices) ==
    /\ r.kind = expr.kind
    /\ CASE expr.kind = "Const" -> r.a = expr.a
         [] expr.kind = "Var" -> r.a = indices[expr.a + 1]
         [] expr.kind \in {"Add", "Mul"} ->
               /\ SameTreeRemapped(expr.a, r.a, indices)
               /\ SameTreeRemapped(expr.b, r.b, indices)
         [] expr.kind = "Pow" ->
               /\ SameTreeRemapped(expr.a, r.a, indices)
               /\ r.b = expr.b

\* C40: ArithExpr::remap_vars(indices) returns the same expression tree with
\* every Var(i) replaced by Var(indices[i]) and with constants, operators and
\* exponents untouched, and returns IncorrectArgumentLength exactly when the
\* expression contains a Var(i) with i >= indices.len().
C40_RemapVars ==
    FnRan("remap_vars") =>
        LET expr == fn_in.args[1]
            indices == fn_in.args[2]
            out == fn_out.val
        IN  /\ out.tag \in {"Ok", "Err"}
            /\ out.tag = "Err" <=> \E i \in VarsOf(expr) : i >= Len(indices)
            /\ out.tag = "Ok" => SameTreeRemapped(expr, out.expr, indices)

\* test_remap_vars_works: ((x0 + 1) * x1)^3 under [5, 3] is ((x5 + 1) * x3)^3.
C40_Witness ==
    /\ FnRan("remap_vars")
    /\ EqualExpr(fn_in.args[1], FnExprs[9])
    /\ fn_in.args[2] = <<5, 3>>
    /\ fn_out.val.tag = "Ok"
    /\ EqualExpr(fn_out.val.expr,
                 ArithExpr("Pow",
                           ArithExpr("Mul",
                                     ArithExpr("Add", ArithExpr("Var", 5, 0),
                                               ArithExpr("Const", FOne, 0)),
                                     ArithExpr("Var", 3, 0)),
                           3))

\* test_remap_vars_with_too_few_vars: the same expression under [5] is refused.
RemapRefused ==
    /\ FnRan("remap_vars")
    /\ EqualExpr(fn_in.args[1], FnExprs[9])
    /\ fn_in.args[2] = <<5>>
    /\ fn_out.val.tag = "Err"

(***************************************************************************)
(* ArithExpr::write followed by ArithExpr::read.                           *)
(***************************************************************************)
\* C39: for every ArithExpr, ArithExpr::read applied to the bytes written by
\* ArithExpr::write returns an expression equal to the original: Add(a, b) and
\* Mul(a, b) with a different from b come back with both operands intact and
\* in order, Pow(e, n) with its base and exponent, and Const with its value.
C39_ExprRoundTrip ==
    FnRan("write") =>
        /\ fn_out.val.tag = "Ok"
        /\ EqualExpr(fn_out.val.val, fn_in.args)

\* x0 + x1 was written and read: the left operand came back twice.
RightOperandLost ==
    /\ FnRan("write")
    /\ EqualExpr(fn_in.args, ArithExpr("Add", x0, x1))
    /\ fn_out.val.tag = "Ok"
    /\ EqualExpr(fn_out.val.val, ArithExpr("Add", x0, x0))

\* A variable, and an operator applied to the same operand twice, do come back.
SimpleExprComesBack ==
    (FnRan("write") /\ \E k \in {1, 2, 6} : EqualExpr(fn_in.args, FnExprs[k])) =>
        /\ fn_out.val.tag = "Ok"
        /\ EqualExpr(fn_out.val.val, fn_in.args)

(***************************************************************************)
(* verify_with_pcs: flush oracles, counts and products stay with their     *)
(* flushes.                                                                *)
(***************************************************************************)
\* The flush setup of the run succeeded.
SetUp(r) == r.pc = "balance" \/ Ran(r, "balance")

\* Before the flush sumcheck reorders them: the i-th flush oracle is the
\* oracle of the i-th flush of the channel-sorted list, and the i-th count is
\* that flush's count.
PairedWithFlushes(v) ==
    LET r == runs[v]
        sys == heap[working(v)]
    IN  /\ Len(r.flush_oracle_ids) <= Len(sys.flushes)
        /\ Len(r.flush_counts) = Len(sys.flushes)
        /\ SortedByChannel(sys.flushes)
        /\ \A i \in 1..Len(sys.flushes) : r.flush_counts[i] = sys.flushes[i].count
        /\ \A i \in 1..Len(r.flush_oracle_ids) :
              FlushOracleAsDescribed(sys.oracles, r.flush_oracle_ids[i], sys.flushes[i],
                                     r.mixing_challenge, r.permutation_challenges)

\* The products were accepted: there is one per flush and one per flush oracle.
ProductPerFlush(v) ==
    /\ Len(runs[v].flush_products) = Len(heap[working(v)].flushes)
    /\ Len(runs[v].flush_oracle_ids) = Len(heap[working(v)].flushes)

FewerOraclesThanFlushes(v) ==
    /\ SetUp(runs[v])
    /\ Len(runs[v].flush_oracle_ids) < Len(heap[working(v)].flushes)

\* The run of v went through the balance phase and ended there with one of errs.
EndedAtBalance(v, errs) ==
    Ran(runs[v], "balance") =>
        /\ runs[v].pc = "done"
        /\ runs[v].result.tag = "Err"
        /\ runs[v].result.err \in errs
        /\ ~Ran(runs[v], "gkr")

PairedOrEnded(errs) ==
    \A v \in DOMAIN runs :
        SetUp(runs[v]) =>
            /\ ~Ran(runs[v], "flush_sumcheck") => PairedWithFlushes(v)
            /\ Ran(runs[v], "gkr") => ProductPerFlush(v)
            /\ FewerOraclesThanFlushes(v) => EndedAtBalance(v, errs)

\* C34 as stated: in verify_with_pcs, for every flush list, either the i-th
\* flush oracle id, the i-th flush count and the i-th claimed flush product all
\* belong to the i-th flush of the channel-sorted list, or verification fails:
\* when make_flush_oracles yields fewer oracles than there are flushes, the run
\* ends with IncorrectNumberOfFlushProducts and never pairs a product with the
\* wrong flush.
C34_PairedOrIncorrectNumber == PairedOrEnded({"IncorrectNumberOfFlushProducts"})

\* C34 as the code has it: with fewer oracles than flushes the run ends at the
\* products, with IncorrectNumberOfFlushProducts or, when the proof has too
\* few tokens left for the products, with the transcript's error.
PairedOrRunEnds == PairedOrEnded({"IncorrectNumberOfFlushProducts", "TranscriptError"})

\* The flush on channel 2 got no oracle: one product was read for two flushes
\* and the run ended with IncorrectNumberOfFlushProducts.
C34_Witness ==
    \E v \in DOMAIN runs :
        /\ FewerOraclesThanFlushes(v)
        /\ Len(heap[working(v)].flushes) = 2
        /\ Len(runs[v].flush_oracle_ids) = 1
        /\ Len(runs[v].flush_products) = 1
        /\ runs[v].pc = "done"
        /\ runs[v].result = VwErr("IncorrectNumberOfFlushProducts", 0)

\* The same system with a proof that ends before the flush products.
ProductsMissing ==
    \E v \in DOMAIN runs :
        /\ FewerOraclesThanFlushes(v)
        /\ runs[v].pc = "done"
        /\ runs[v].result = VwErr("TranscriptError", 0)

====
